---- MODULE Spec2Model ----
(***************************************************************************)
(* Graph RAG: the entity store (Neo4jHandler), the knowledge graph builder *)
(* (KnowledgeGraphBuilder), the hybrid retriever (HybridRetriever) and the *)
(* knowledge extractor (OllamaHandler.extract_entities, EntityExtractor).  *)
(*                                                                         *)
(* Strings are sequences of one-character strings, so that lower(),        *)
(* upper(), strip(), split(), replace(), find() and rfind() are computed   *)
(* as Python computes them.  Store ids are positive naturals; 0 is None.   *)
(***************************************************************************)
EXTENDS Integers, Sequences, FiniteSets, TLC

VARIABLES nodes, rels, entity_cache, build, ret, rr, ext, api

vars == <<nodes, rels, entity_cache, build, ret, rr, ext, api>>

(***************************************************************************)
(* Bounds of the model.                                                    *)
(***************************************************************************)
MaxNodes == 2
MaxRels == 2
MaxTopKGraph == 4
MaxHits == 2
MaxQueryTokens == 2

(***************************************************************************)
(* Python strings.                                                         *)
(***************************************************************************)
LowerLetters == <<"a","b","c","d","e","f","g","h","i","j","k","l","m",
                  "n","o","p","q","r","s","t","u","v","w","x","y","z">>

UpperLetters == <<"A","B","C","D","E","F","G","H","I","J","K","L","M",
                  "N","O","P","Q","R","S","T","U","V","W","X","Y","Z">>

Digits == {"0","1","2","3","4","5","6","7","8","9"}

Whitespace == {" ", "\t", "\n"}

UpperSet == { UpperLetters[i] : i \in DOMAIN UpperLetters }

LowerSet == { LowerLetters[i] : i \in DOMAIN LowerLetters }

\* str.lower() and str.upper() on the letters
LowerOf == [c \in UpperSet |->
               LowerLetters[CHOOSE i \in DOMAIN UpperLetters : UpperLetters[i] = c]]

UpperOf == [c \in LowerSet |->
               UpperLetters[CHOOSE i \in DOMAIN LowerLetters : LowerLetters[i] = c]]

IsUpperChar(c) == c \in UpperSet

IsLowerChar(c) == c \in LowerSet

IsAlphaChar(c) == IsUpperChar(c) \/ IsLowerChar(c)

LowerChar(c) == IF c \in UpperSet THEN LowerOf[c] ELSE c

UpperChar(c) == IF c \in LowerSet THEN UpperOf[c] ELSE c

StrLower(s) == [i \in DOMAIN s |-> LowerChar(s[i])]

StrUpper(s) == [i \in DOMAIN s |-> UpperChar(s[i])]

ReplaceSpaces(s) == [i \in DOMAIN s |-> IF s[i] = " " THEN "_" ELSE s[i]]

RECURSIVE LStrip(_)
LStrip(s) ==
    IF s # <<>> /\ Head(s) \in Whitespace THEN LStrip(Tail(s)) ELSE s

RECURSIVE RStrip(_)
RStrip(s) ==
    IF s # <<>> /\ s[Len(s)] \in Whitespace
    THEN RStrip(SubSeq(s, 1, Len(s) - 1))
    ELSE s

Strip(s) == RStrip(LStrip(s))

\* str.split() with no argument: the maximal runs of non-whitespace.
RECURSIVE SplitFrom(_, _, _)
SplitFrom(s, i, cur) ==
    IF i > Len(s)
    THEN IF cur = <<>> THEN <<>> ELSE <<cur>>
    ELSE IF s[i] \in Whitespace
         THEN IF cur = <<>>
              THEN SplitFrom(s, i + 1, <<>>)
              ELSE <<cur>> \o SplitFrom(s, i + 1, <<>>)
         ELSE SplitFrom(s, i + 1, Append(cur, s[i]))

Split(s) == SplitFrom(s, 1, <<>>)

\* needle occurs in hay as a contiguous substring
Contains(hay, needle) ==
    \E i \in 1..(Len(hay) - Len(needle) + 1) :
        SubSeq(hay, i, i + Len(needle) - 1) = needle

\* s[:k] of Python, k possibly negative
PySlice(s, k) ==
    IF k >= 0
    THEN SubSeq(s, 1, IF k < Len(s) THEN k ELSE Len(s))
    ELSE SubSeq(s, 1, IF Len(s) + k > 0 THEN Len(s) + k ELSE 0)

PyLast_mutant_all(s, k) == s

\* s[-k:] of Python for k > 0
PyLast(s, k) == SubSeq(s, (IF Len(s) > k THEN Len(s) - k ELSE 0) + 1, Len(s))

\* dict.get(key, default) on a field that may be absent
None == <<"<None>">>

GetOr(v, default) == IF v = None THEN default ELSE v

(***************************************************************************)
(* The strings the model draws its inputs from.                            *)
(***************************************************************************)
sWheat == <<"W","h","e","a","t">>
swheat == <<"w","h","e","a","t">>
sRust == <<"R","u","s","t">>
sOat == <<"O","a","t">>
sIs == <<"i","s">>
sEntity == <<"E","n","t","i","t","y">>
sCrop == <<"C","r","o","p">>
sDisease == <<"D","i","s","e","a","s","e">>
sPest == <<"P","e","s","t">>
sTechnique == <<"T","e","c","h","n","i","q","u","e">>
sChemical == <<"C","h","e","m","i","c","a","l">>
sDocument == <<"D","o","c","u","m","e","n","t">>
sAffectsCrop == <<"a","f","f","e","c","t","s"," ","c","r","o","p">>
sAFFECTS_CROP == <<"A","F","F","E","C","T","S","_","C","R","O","P">>
sTREATS == <<"T","R","E","A","T","S">>
sRELATED_TO == <<"R","E","L","A","T","E","D","_","T","O">>

(***************************************************************************)
(* Entity store (Neo4jHandler).  nodes is the node table in creation order,*)
(* a node's id is its position; rels is the edge list.  A node carries one *)
(* label (its type); name = None is a node without a name property.        *)
(* scan is the order in which the store enumerates its records for a       *)
(* query without ORDER BY: the store does not define it.                   *)
(***************************************************************************)
ScanOrders == {"asc", "desc"}

ScanSeq(n, scan) == [i \in 1..n |-> IF scan = "asc" THEN i ELSE n + 1 - i]

\* a label or relationship type that Cypher accepts unquoted in a pattern
ValidLabel(s) ==
    /\ s # <<>>
    /\ IsAlphaChar(s[1]) \/ s[1] = "_"
    /\ \A i \in DOMAIN s : IsAlphaChar(s[i]) \/ s[i] \in Digits \/ s[i] = "_"

\* MATCH (n:type) WHERE toLower(n.name) = toLower($name) ... LIMIT 1
\* the id of the first match in scan order, 0 when there is none
find_entity_by_name(ns, type, name, scan) ==
    LET order == ScanSeq(Len(ns), scan)
        hit(i) == /\ ns[order[i]].type = type
                  /\ ns[order[i]].name # None
                  /\ StrLower(ns[order[i]].name) = StrLower(name)
    IN IF \E i \in DOMAIN order : hit(i)
       THEN order[CHOOSE i \in DOMAIN order :
                      hit(i) /\ \A j \in 1..(i - 1) : ~hit(j)]
       ELSE 0

\* the create looks the name up first, in the same statement
create_entity_node_mutant_merge(ns, type, name, description) ==
    IF ~ValidLabel(type)
    THEN [raised |-> TRUE, id |-> 0, nodes |-> ns]
    ELSE IF find_entity_by_name(ns, type, name, "asc") # 0
    THEN [raised |-> FALSE, id |-> find_entity_by_name(ns, type, name, "asc"),
          nodes |-> ns]
    ELSE [raised |-> FALSE, id |-> Len(ns) + 1,
          nodes |-> Append(ns, [type |-> type, name |-> name,
                                description |-> description])]

\* CREATE (n:type $properties) RETURN elementId(n)
create_entity_node(ns, type, name, description) ==
    IF ~ValidLabel(type)
    THEN [raised |-> TRUE, id |-> 0, nodes |-> ns]
    ELSE [raised |-> FALSE, id |-> Len(ns) + 1,
          nodes |-> Append(ns, [type |-> type, name |-> name,
                                description |-> description])]

get_or_create_entity_mutant_no_lookup(ns, type, name, description, scan) ==
    IF name = None \/ name = <<>>
    THEN [raised |-> TRUE, id |-> 0, nodes |-> ns]
    ELSE create_entity_node(ns, type, name, description)

get_or_create_entity_mutant_no_name_check(ns, type, name, description, scan) ==
    IF ~ValidLabel(type)
    THEN [raised |-> TRUE, id |-> 0, nodes |-> ns]
    ELSE IF name # None /\ find_entity_by_name(ns, type, name, scan) # 0
         THEN [raised |-> FALSE, id |-> find_entity_by_name(ns, type, name, scan),
               nodes |-> ns]
         ELSE create_entity_node(ns, type, name, description)

\* the lookup and the create run back to back: the single-writer call
get_or_create_entity(ns, type, name, description, scan) ==
    IF name = None \/ name = <<>>
    THEN [raised |-> TRUE, id |-> 0, nodes |-> ns]
    ELSE IF ~ValidLabel(type)
         THEN [raised |-> TRUE, id |-> 0, nodes |-> ns]
         ELSE LET existing == find_entity_by_name(ns, type, name, scan)
              IN IF existing # 0
                 THEN [raised |-> FALSE, id |-> existing, nodes |-> ns]
                 ELSE create_entity_node(ns, type, name, description)

\* MATCH (a), (b) WHERE elementId(a) = $from_id AND elementId(b) = $to_id
\* CREATE (a)-[r:rel_type]->(b) RETURN r
create_relationship(ns, rs, from_id, to_id, rel_type) ==
    IF ~ValidLabel(rel_type)
    THEN [raised |-> TRUE, success |-> FALSE, rels |-> rs]
    ELSE IF from_id \in DOMAIN ns /\ to_id \in DOMAIN ns
         THEN [raised |-> FALSE, success |-> TRUE,
               rels |-> Append(rs, [from |-> from_id, to |-> to_id,
                                    type |-> rel_type])]
         ELSE [raised |-> FALSE, success |-> FALSE, rels |-> rs]

\* the walks of 1..k further relationships from cur that use no relationship
\* twice, depth first in scan order, each as <<end node, relationship types>>
RECURSIVE WalksFrom(_, _, _, _, _, _)
WalksFrom(rs, cur, used, k, i, scan) ==
    IF k = 0 \/ i > Len(rs)
    THEN <<>>
    ELSE LET r == ScanSeq(Len(rs), scan)[i]
             usable == r \notin used /\ (rs[r].from = cur \/ rs[r].to = cur)
             other == IF rs[r].from = cur THEN rs[r].to ELSE rs[r].from
             deeper == WalksFrom(rs, other, used \cup {r}, k - 1, 1, scan)
         IN (IF usable
             THEN <<[id |-> other, relationship_path |-> <<rs[r].type>>]>>
                  \o [j \in DOMAIN deeper |->
                        [id |-> deeper[j].id,
                         relationship_path |->
                            <<rs[r].type>> \o deeper[j].relationship_path]]
             ELSE <<>>)
            \o WalksFrom(rs, cur, used, k, i + 1, scan)

\* RETURN DISTINCT: the first occurrence of each row
RECURSIVE Distinct(_)
Distinct(rows) ==
    IF rows = <<>>
    THEN <<>>
    ELSE LET init == Distinct(SubSeq(rows, 1, Len(rows) - 1))
             last == rows[Len(rows)]
         IN IF \E j \in DOMAIN init : init[j] = last
            THEN init
            ELSE Append(init, last)

RelatedLimit == 50

\* MATCH path = (start)-[r*1..max_hops]-(end) WHERE elementId(start) = $id
\* RETURN DISTINCT elementId(end), ..., [rel in relationships(path) | type(rel)]
\* LIMIT 50                                              (direction "both")
get_related_entities(rs, entity_id, max_hops, scan) ==
    PySlice(Distinct(WalksFrom(rs, entity_id, {}, max_hops, 1, scan)),
            RelatedLimit)

\* MATCH (n) WHERE any(prop in keys(n) WHERE toLower(toString(n[prop]))
\* CONTAINS toLower($search_text)) RETURN ... LIMIT $limit
search_entities(ns, search_text, limit, scan) ==
    LET order == ScanSeq(Len(ns), scan)
        hit(id) == \/ /\ ns[id].name # None
                      /\ Contains(StrLower(ns[id].name), StrLower(search_text))
                   \/ /\ ns[id].description # None
                      /\ Contains(StrLower(ns[id].description),
                                  StrLower(search_text))
    IN PySlice(SelectSeq(order, hit), limit)

(***************************************************************************)
(* Hybrid retriever (HybridRetriever).  neoUp = FALSE: the entity store is *)
(* unreachable and each of its calls raises.  An operator returns a record *)
(* whose field raised tells whether the exception left the method.         *)
(***************************************************************************)
\* PineconeHandler.query: the index answers with its matches, best first;
\* an error of the index is caught and gives []
pinecone_query(index, top_k, indexUp) ==
    IF indexUp THEN PySlice(index, top_k) ELSE <<>>

\* PineconeHandler.search_by_text: the embedding call is not guarded here
search_by_text(index, top_k, embedUp, indexUp) ==
    IF embedUp
    THEN [raised |-> FALSE, results |-> pinecone_query(index, top_k, indexUp)]
    ELSE [raised |-> TRUE, results |-> <<>>]

_vector_search_mutant_propagate(index, top_k, embedUp, indexUp) ==
    search_by_text(index, top_k, embedUp, indexUp)

_vector_search(index, top_k, embedUp, indexUp) ==
    LET r == search_by_text(index, top_k, embedUp, indexUp)
    IN IF r.raised
       THEN [raised |-> FALSE, results |-> <<>>]
       ELSE [raised |-> FALSE, results |-> r.results]

MinTermLen == 3

SearchLimit == 3

\* the names of the matches that have a non-empty name
MatchNames(ns, matches) ==
    LET named(id) == ns[id].name # None /\ ns[id].name # <<>>
        ids == SelectSeq(matches, named)
    IN [i \in DOMAIN ids |-> ns[ids[i]].name]

\* duplicates are told by their exact spelling
RECURSIVE UniqueNames_mutant_case_sensitive(_)
UniqueNames_mutant_case_sensitive(entities) ==
    IF entities = <<>>
    THEN <<>>
    ELSE LET init == UniqueNames_mutant_case_sensitive(
                         SubSeq(entities, 1, Len(entities) - 1))
             last == entities[Len(entities)]
         IN IF \E j \in DOMAIN init : init[j] = last
            THEN init
            ELSE Append(init, last)

\* remove duplicates while preserving order, comparing lowercased
RECURSIVE UniqueNames(_)
UniqueNames(entities) ==
    IF entities = <<>>
    THEN <<>>
    ELSE LET init == UniqueNames(SubSeq(entities, 1, Len(entities) - 1))
             last == entities[Len(entities)]
         IN IF \E j \in DOMAIN init : StrLower(init[j]) = StrLower(last)
            THEN init
            ELSE Append(init, last)

SkipTerm_mutant_len2(term) == Len(term) < 2

\* "Skip very short terms"
SkipTerm(term) == Len(term) < MinTermLen

\* the loop over query_terms from term i on; searched logs the terms passed
\* to search_entities
RECURSIVE SearchTerms(_, _, _, _, _, _, _)
SearchTerms(ns, terms, i, entities, searched, neoUp, scan) ==
    IF i > Len(terms)
    THEN [raised |-> FALSE, entities |-> entities, searched |-> searched]
    ELSE IF SkipTerm(terms[i])
         THEN SearchTerms(ns, terms, i + 1, entities, searched, neoUp, scan)
         ELSE IF ~neoUp
              THEN [raised |-> TRUE, entities |-> entities,
                    searched |-> Append(searched, terms[i])]
              ELSE SearchTerms(ns, terms, i + 1,
                       entities \o MatchNames(ns,
                           search_entities(ns, terms[i], SearchLimit, scan)),
                       Append(searched, terms[i]), neoUp, scan)

\* what follows the loop: "Remove duplicates while preserving order"
QueryEntities(r) ==
    [raised |-> r.raised, searched |-> r.searched,
     entities |-> IF r.raised THEN <<>> ELSE UniqueNames(r.entities)]

_extract_query_entities(ns, query, neoUp, scan) ==
    QueryEntities(SearchTerms(ns, Split(StrLower(query)), 1, <<>>, <<>>,
                              neoUp, scan))

FallbackTypes == <<sCrop, sDisease, sPest, sTechnique, sChemical>>

\* the lookups of one seed name: Entity first, then the fallback types up to
\* the first that yields a node
RECURSIVE ResolveFrom(_, _, _, _, _)
ResolveFrom(ns, types, name, scan, tried) ==
    IF types = <<>>
    THEN [id |-> 0, tried |-> tried]
    ELSE LET id == find_entity_by_name(ns, Head(types), name, scan)
         IN IF id # 0
            THEN [id |-> id, tried |-> Append(tried, Head(types))]
            ELSE ResolveFrom(ns, Tail(types), name, scan,
                             Append(tried, Head(types)))

\* the generic type is tried last
Resolve_mutant_entity_last(ns, name, scan) ==
    ResolveFrom(ns, FallbackTypes \o <<sEntity>>, name, scan, <<>>)

Resolve(ns, name, scan) ==
    ResolveFrom(ns, <<sEntity>> \o FallbackTypes, name, scan, <<>>)

HasId(results, id) == \E j \in DOMAIN results : results[j].id = id

AddRelated_mutant_no_dedup(all_related, related, j, top_k) ==
    all_related \o related

\* "Add to results if not already seen": the loop over related from row j on,
\* left as soon as top_k results are held
RECURSIVE AddRelated(_, _, _, _)
AddRelated(all_related, related, j, top_k) ==
    IF j > Len(related)
    THEN all_related
    ELSE LET added == IF HasId(all_related, related[j].id)
                      THEN all_related
                      ELSE Append(all_related, related[j])
         IN IF Len(added) >= top_k
            THEN added
            ELSE AddRelated(added, related, j + 1, top_k)

\* the neighbourhood of the resolved seed res added to all_related
FetchRelated(rs, res, all_related, top_k, max_hops, scan) ==
    [raised |-> res.id = 0, tried |-> res.tried, fetched |-> <<res.id>>,
     all_related |-> AddRelated(all_related,
                         get_related_entities(rs, res.id, max_hops, scan),
                         1, top_k)]

\* "if not entity: continue", then the neighbourhood of the entity found
SkipOrFetch(rs, res, all_related, top_k, max_hops, scan) ==
    IF res.id = 0
    THEN [raised |-> FALSE, tried |-> res.tried, fetched |-> <<>>,
          all_related |-> all_related]
    ELSE FetchRelated(rs, res, all_related, top_k, max_hops, scan)

TraverseSeed_mutant_no_skip(ns, rs, name, all_related, top_k, max_hops, scan) ==
    FetchRelated(rs, Resolve(ns, name, scan), all_related, top_k, max_hops,
                 scan)

\* the body of the loop over entity_names for one seed name: tried are the
\* types looked up, fetched the id whose neighbourhood was fetched (if any)
TraverseSeed(ns, rs, name, all_related, top_k, max_hops, scan) ==
    SkipOrFetch(rs, Resolve(ns, name, scan), all_related, top_k, max_hops,
                scan)

\* the loop over entity_names from seed i on; finds logs the lookups as
\* <<type, name>>, fetched the ids whose neighbourhood was fetched
RECURSIVE TraverseFrom(_, _, _, _, _, _, _, _, _, _, _)
RECURSIVE TraverseOn(_, _, _, _, _, _, _, _, _, _, _, _)
TraverseFrom(ns, rs, names, i, all_related, finds, fetched, top_k, max_hops, neoUp, scan) ==
    IF i > Len(names)
    THEN [raised |-> FALSE, all_related |-> all_related,
          finds |-> finds, fetched |-> fetched]
    ELSE IF ~neoUp
         THEN [raised |-> TRUE, all_related |-> all_related,
               finds |-> Append(finds, <<sEntity, names[i]>>),
               fetched |-> fetched]
         ELSE TraverseOn(ns, rs, names, i, all_related, finds, fetched,
                         top_k, max_hops, neoUp, scan,
                         TraverseSeed(ns, rs, names[i], all_related, top_k,
                                      max_hops, scan))

\* the loop goes on to the next seed however many results are held
TraverseOn_mutant_no_break(ns, rs, names, i, all_related, finds, fetched, top_k, max_hops, neoUp, scan, s) ==
    IF s.raised
    THEN [raised |-> TRUE, all_related |-> all_related,
          finds |-> finds \o [t \in DOMAIN s.tried |-> <<s.tried[t], names[i]>>],
          fetched |-> fetched]
    ELSE TraverseFrom(ns, rs, names, i + 1, s.all_related,
                      finds \o [t \in DOMAIN s.tried |-> <<s.tried[t], names[i]>>],
                      fetched \o s.fetched, top_k, max_hops, neoUp, scan)

\* after the loop body s of seed i: "if len(all_related) >= top_k: break"
TraverseOn(ns, rs, names, i, all_related, finds, fetched, top_k, max_hops, neoUp, scan, s) ==
    LET finds2 == finds \o [t \in DOMAIN s.tried |->
                               <<s.tried[t], names[i]>>]
        fetched2 == fetched \o s.fetched
    IN IF s.raised
       THEN [raised |-> TRUE, all_related |-> all_related,
             finds |-> finds2, fetched |-> fetched]
       ELSE IF s.fetched # <<>> /\ Len(s.all_related) >= top_k
       THEN [raised |-> FALSE, all_related |-> s.all_related,
             finds |-> finds2, fetched |-> fetched2]
       ELSE TraverseFrom(ns, rs, names, i + 1, s.all_related,
                         finds2, fetched2, top_k, max_hops, neoUp, scan)

Truncate_mutant_none(results, top_k) == results

\* all_related[:top_k], merged[:top_k]
Truncate(results, top_k) == PySlice(results, top_k)

\* the results come back in the reverse of the order they were found in
Traversed_mutant_reversed(r, top_k) ==
    [raised |-> r.raised, finds |-> r.finds, fetched |-> r.fetched,
     results |-> IF r.raised THEN <<>>
                 ELSE [i \in DOMAIN Truncate(r.all_related, top_k) |->
                          Truncate(r.all_related, top_k)
                              [Len(Truncate(r.all_related, top_k)) + 1 - i]]]

\* "return all_related[:top_k]"
Traversed(r, top_k) ==
    [raised |-> r.raised, finds |-> r.finds, fetched |-> r.fetched,
     results |-> IF r.raised THEN <<>> ELSE Truncate(r.all_related, top_k)]

_graph_traversal(ns, rs, entity_names, top_k, max_hops, neoUp, scan) ==
    Traversed(TraverseFrom(ns, rs, entity_names, 1, <<>>, <<>>, <<>>,
                           top_k, max_hops, neoUp, scan), top_k)

ExpandHits == 3

\* the words of a hit's text that start with an upper-case character
Capitalized(hit) ==
    LET words == Split(GetOr(hit.text, <<>>))
        cap(w) == w # <<>> /\ IsUpperChar(w[1])
    IN SelectSeq(words, cap)

RECURSIVE EntityCandidates(_)
EntityCandidates(hits) ==
    IF hits = <<>>
    THEN <<>>
    ELSE Capitalized(Head(hits)) \o EntityCandidates(Tail(hits))

\* every new result is appended, whether or not its id is already there
MergeNew_mutant_no_dedup(merged, new_results, j, top_k) ==
    merged \o new_results

\* "Merge with existing results (deduplicate by ID)"
RECURSIVE MergeNew(_, _, _, _)
MergeNew(merged, new_results, j, top_k) ==
    IF j > Len(new_results)
    THEN merged
    ELSE LET added == IF HasId(merged, new_results[j].id)
                      THEN merged
                      ELSE Append(merged, new_results[j])
         IN IF Len(added) >= top_k
            THEN added
            ELSE MergeNew(added, new_results, j + 1, top_k)

\* "return merged[:top_k]" for the traversal t from the candidates
Merged(t, entity_candidates, existing_graph_results, top_k) ==
    [raised |-> t.raised, finds |-> t.finds, fetched |-> t.fetched,
     candidates |-> entity_candidates,
     results |-> IF t.raised
                 THEN <<>>
                 ELSE Truncate(MergeNew(existing_graph_results, t.results,
                                        1, top_k), top_k)]

ExpandFrom(ns, rs, entity_candidates, existing_graph_results, top_k, max_hops, neoUp, scan) ==
    Merged(_graph_traversal(ns, rs, entity_candidates, top_k, max_hops,
                            neoUp, scan),
           entity_candidates, existing_graph_results, top_k)

_expand_from_vector_results(ns, rs, vector_results, existing_graph_results, top_k, max_hops, neoUp, scan) ==
    ExpandFrom(ns, rs, EntityCandidates(PySlice(vector_results, ExpandHits)),
               existing_graph_results, top_k, max_hops, neoUp, scan)

\* "If graph results are sparse": len(graph_results) < top_k_graph // 2
Sparse(graph_results, top_k_graph) == Len(graph_results) < top_k_graph \div 2

\* the outcome of retrieve when a step raised: nothing is returned
RaisedAt(step) ==
    [raised |-> TRUE, step |-> step,
     vector_results |-> <<>>, graph_results |-> <<>>,
     searched |-> <<>>, query_entities |-> <<>>,
     first_results |-> <<>>, finds |-> <<>>, fetched |-> <<>>,
     expanded |-> FALSE, candidates |-> <<>>]

\* "return vector_results, graph_results" after step 4 gave x
Step4Done(v, q, g, x) ==
    IF x.raised
    THEN [RaisedAt("expand_from_vector_results") EXCEPT
              !.searched = q.searched, !.query_entities = q.entities,
              !.first_results = g.results,
              !.finds = g.finds \o x.finds,
              !.fetched = g.fetched, !.expanded = TRUE,
              !.candidates = x.candidates]
    ELSE [RaisedAt("returned") EXCEPT
              !.raised = FALSE,
              !.vector_results = v.results, !.graph_results = x.results,
              !.searched = q.searched, !.query_entities = q.entities,
              !.first_results = g.results,
              !.finds = g.finds \o x.finds,
              !.fetched = g.fetched \o x.fetched,
              !.expanded = TRUE, !.candidates = x.candidates]

\* "Step 4: If graph results are sparse, expand from vector results"
Step4(ns, rs, top_k_graph, max_hops, neoUp, scan, v, q, g) ==
    IF g.raised
    THEN [RaisedAt("graph_traversal") EXCEPT
              !.searched = q.searched, !.query_entities = q.entities,
              !.finds = g.finds]
    ELSE IF ~Sparse(g.results, top_k_graph)
    THEN [RaisedAt("returned") EXCEPT
              !.raised = FALSE,
              !.vector_results = v.results, !.graph_results = g.results,
              !.searched = q.searched, !.query_entities = q.entities,
              !.first_results = g.results,
              !.finds = g.finds, !.fetched = g.fetched]
    ELSE Step4Done(v, q, g,
             _expand_from_vector_results(ns, rs, v.results, g.results,
                 top_k_graph, max_hops, neoUp, scan))

\* "Step 3: Graph traversal from query entities"
Step3(ns, rs, top_k_graph, max_hops, neoUp, scan, v, q) ==
    IF q.raised
    THEN [RaisedAt("extract_query_entities") EXCEPT !.searched = q.searched]
    ELSE Step4(ns, rs, top_k_graph, max_hops, neoUp, scan, v, q,
               _graph_traversal(ns, rs, q.entities, top_k_graph, max_hops,
                                neoUp, scan))

\* "Step 2: Extract entities from query"
Step2(ns, rs, query, top_k_graph, max_hops, neoUp, scan, v) ==
    IF v.raised
    THEN RaisedAt("vector_search")
    ELSE Step3(ns, rs, top_k_graph, max_hops, neoUp, scan, v,
               _extract_query_entities(ns, query, neoUp, scan))

retrieve(ns, rs, index, query, top_k_vector, top_k_graph, max_hops, embedUp, indexUp, neoUp, scan) ==
    Step2(ns, rs, query, top_k_graph, max_hops, neoUp, scan,
          _vector_search(index, top_k_vector, embedUp, indexUp))

(***************************************************************************)
(* Retrieval requests.  The entity store content of a request is any graph *)
(* over at most MaxNodes nodes of NodePool and at most MaxRels of the      *)
(* relationships between them; the vector index answers with any of its    *)
(* chunks, best first.                                                     *)
(***************************************************************************)
MaxHops == 2

sOfWheat == <<"o","f"," ">> \o sWheat

NodePool ==
    << [type |-> sCrop,     name |-> sWheat, description |-> <<>>],
       [type |-> sDisease,  name |-> sRust,  description |-> sOfWheat],
       [type |-> sEntity,   name |-> swheat, description |-> None],
       [type |-> sDocument, name |-> sOat,   description |-> <<>>] >>

\* the members of pool whose index is in S, in pool order
Pick(pool, S) ==
    LET idx == SelectSeq([i \in DOMAIN pool |-> i], LAMBDA i : i \in S)
    IN [j \in DOMAIN idx |-> pool[idx[j]]]

\* between every two nodes a < b: a TREATS b and b AFFECTS_CROP a
RECURSIVE PairsUpTo(_, _, _)
PairsUpTo(n, a, b) ==
    IF a >= n THEN <<>>
    ELSE IF b > n THEN PairsUpTo(n, a + 1, a + 2)
    ELSE <<[from |-> a, to |-> b, type |-> sTREATS],
           [from |-> b, to |-> a, type |-> sAFFECTS_CROP]>>
         \o PairsUpTo(n, a, b + 1)

RelPool(n) == PairsUpTo(n, 1, 2)

Stores ==
    UNION { { [nodes |-> Pick(NodePool, N), rels |-> Pick(RelPool(Cardinality(N)), R)] :
                R \in { X \in SUBSET DOMAIN RelPool(Cardinality(N)) :
                            Cardinality(X) <= MaxRels } } :
            N \in { X \in SUBSET DOMAIN NodePool : Cardinality(X) <= MaxNodes } }

sOn == <<"o","n">>

HitPool ==
    << [id |-> "c1", score |-> 90, text |-> sRust \o <<" ">> \o sOn \o <<" ">> \o sWheat],
       [id |-> "c2", score |-> 40, text |-> None] >>

\* the index holds the chunks of HitPool from some rank on
Indexes == { SubSeq(HitPool, k, Len(HitPool)) : k \in 1..(Len(HitPool) + 1) }

TokenPool == {sIs, sOat, sWheat, sRust}

RECURSIVE TokenSeqs(_)
TokenSeqs(k) ==
    IF k = 0
    THEN {<<>>}
    ELSE LET shorter == TokenSeqs(k - 1)
         IN shorter \cup { Append(ts, t) : ts \in shorter, t \in TokenPool }

\* " ".join(tokens)
RECURSIVE Join(_)
Join(tokens) ==
    IF tokens = <<>> THEN <<>>
    ELSE IF Len(tokens) = 1 THEN tokens[1]
    ELSE tokens[1] \o <<" ">> \o Join(Tail(tokens))

Faults == {"none", "embed", "index", "neo"}

NoRequest ==
    [status |-> "idle"]

NoBuild == [status |-> "idle"]

NoRerank == [status |-> "idle"]

NoExtract == [status |-> "idle"]

NoCalls == [n |-> 0]

InitRetrieve ==
    /\ \E st \in Stores : nodes = st.nodes /\ rels = st.rels
    /\ entity_cache = <<>>
    /\ build = NoBuild
    /\ ret = NoRequest
    /\ rr = NoRerank
    /\ ext = NoExtract
    /\ api = NoCalls

Retrieve ==
    /\ ret.status = "idle"
    /\ \E tokens \in TokenSeqs(MaxQueryTokens), index \in Indexes,
          top_k_vector \in 1..MaxHits,
          top_k_graph \in (-1)..MaxTopKGraph, max_hops \in 1..MaxHops,
          fault \in Faults, scan \in ScanOrders :
          \E query \in {Join(tokens)} :
          \E r \in {retrieve(nodes, rels, index, query, top_k_vector,
                              top_k_graph, max_hops, fault # "embed",
                              fault # "index", fault # "neo", scan)} :
             ret' = [status |-> IF r.raised THEN "raised" ELSE "returned",
                     tokens |-> tokens, query |-> query, index |-> index,
                     top_k_vector |-> top_k_vector,
                     top_k_graph |-> top_k_graph, max_hops |-> max_hops,
                     fault |-> fault, scan |-> scan, out |-> r]
    /\ UNCHANGED <<nodes, rels, entity_cache, build, rr, ext, api>>

NextRetrieve == Retrieve

SpecRetrieve == InitRetrieve /\ [][NextRetrieve]_vars

(***************************************************************************)
(* Properties of retrieve.                                                 *)
(***************************************************************************)
NoDuplicateIds(results) ==
    \A i, j \in DOMAIN results : results[i].id = results[j].id => i = j

\* C1: for every top_k_graph >= 0 the graph result list that retrieve returns,
\* with or without sparse-result expansion, holds at most top_k_graph entries
\* and no two entries with the same id.
C1_GraphResultsBounded ==
    (ret.status = "returned" /\ ret.top_k_graph >= 0)
        => /\ Len(ret.out.graph_results) <= ret.top_k_graph
           /\ NoDuplicateIds(ret.out.graph_results)

\* expansion ran on a non-empty first result and traversed a second seed
\* whose neighbours were already held
C1_Witness ==
    /\ ret.status = "returned"
    /\ ret.top_k_graph >= 0
    /\ ret.out.expanded
    /\ ret.out.first_results # <<>>
    /\ Len(ret.out.fetched) >= 2
    /\ Len(ret.out.graph_results) >= 1

\* the tokens of the query that are at least MinTermLen long, lowercased
LongTokens(tokens) ==
    LET long(t) == Len(t) >= 3
        kept == SelectSeq(tokens, long)
    IN [i \in DOMAIN kept |-> StrLower(kept[i])]

\* C2: no token shorter than 3 characters is passed to search_entities, and
\* every token of 3 or more characters is searched (lowercased) exactly once,
\* in query order.
C2_ShortTokensNeverSearched ==
    (ret.status # "idle")
        => /\ \A i \in DOMAIN ret.out.searched : Len(ret.out.searched[i]) >= 3
           /\ ret.fault # "neo" => ret.out.searched = LongTokens(ret.tokens)

C2_Witness ==
    /\ ret.status = "returned"
    /\ \E i \in DOMAIN ret.tokens : Len(ret.tokens[i]) < 3
    /\ \E i \in DOMAIN ret.tokens : Len(ret.tokens[i]) = 3
    /\ Len(ret.out.searched) = 1

\* C3: a failure of the embedding function or of the vector store query gives
\* an empty vector result list and does not leave retrieve; query-entity
\* extraction and graph traversal are still carried out.
C3_VectorFailureDegrades ==
    (ret.status # "idle" /\ ret.fault \in {"embed", "index"})
        => /\ ret.status = "returned"
           /\ ret.out.vector_results = <<>>
           /\ ret.out.searched = LongTokens(ret.tokens)
           /\ ret.out.query_entities # <<>>
                => /\ ret.out.finds # <<>>
                   /\ ret.out.finds[1] = <<sEntity, ret.out.query_entities[1]>>

\* the embedding failed although the index held chunks, and the graph was
\* still searched and traversed
C3_Witness ==
    /\ ret.status = "returned"
    /\ ret.fault = "embed"
    /\ ret.index # <<>>
    /\ ret.out.searched # <<>>
    /\ ret.out.fetched # <<>>
    /\ ret.out.graph_results # <<>>

\* the first top_k hits of the index, as the index returned them
IsIndexHits(results, index, top_k) ==
    /\ Len(results) = (IF top_k < Len(index) THEN top_k ELSE Len(index))
    /\ \A i \in DOMAIN results : results[i] = index[i]

\* C4: with no entity in the entity store retrieve does not raise and returns
\* the vector store's hits unchanged with an empty graph result list, for
\* every query, top_k_vector, top_k_graph and max_hops.
C4_EmptyGraphStore ==
    (ret.status # "idle" /\ nodes = <<>> /\ ret.fault # "neo")
        => /\ ret.status = "returned"
           /\ ret.out.graph_results = <<>>
           /\ IsIndexHits(ret.out.vector_results,
                          IF ret.fault = "none" THEN ret.index ELSE <<>>,
                          ret.top_k_vector)

\* the names harvested by the expansion were looked up and none resolved
C4_Witness ==
    /\ ret.status = "returned"
    /\ nodes = <<>>
    /\ ret.out.vector_results # <<>>
    /\ ret.out.searched # <<>>
    /\ ret.out.expanded
    /\ ret.out.candidates # <<>>
    /\ Len(ret.out.finds) >= 6

(***************************************************************************)
(* Reranking (HybridRetriever.rerank_results).  A number is a fraction     *)
(* <<numerator, denominator>> with a positive denominator; NoNumber is an  *)
(* absent score.                                                           *)
(***************************************************************************)
MaxVectorResults == 3
MaxGraphResults == 2

Rat(n, d) == <<n, d>>

NoNumber == <<0, 0>>

Zero == Rat(0, 1)

One == Rat(1, 1)

RatLess(a, b) == a[1] * b[2] < b[1] * a[2]

RatEq(a, b) == a[1] * b[2] = b[1] * a[2]

RatMul(a, b) == Rat(a[1] * b[1], a[2] * b[2])

RatSub(a, b) == Rat(a[1] * b[2] - b[1] * a[2], a[2] * b[2])

\* a / b for b > 0
RatDiv(a, b) == Rat(a[1] * b[2], a[2] * b[1])

\* result.get("score", 0)
ScoreOf(result) == IF result.score = NoNumber THEN Zero ELSE result.score

\* max(r.get("score", 0) for r in vector_results)
RECURSIVE MaxScore(_)
MaxScore(results) ==
    IF Len(results) = 1
    THEN ScoreOf(results[1])
    ELSE LET m == MaxScore(Tail(results))
         IN IF RatLess(m, ScoreOf(results[1])) THEN ScoreOf(results[1]) ELSE m

\* score / max_vector_score if max_vector_score > 0 else 0
NormalizeVector(result, max_vector_score) ==
    IF RatLess(Zero, max_vector_score)
    THEN RatDiv(ScoreOf(result), max_vector_score)
    ELSE Zero

DirectNeighborScore == Rat(8, 10)

\* an absent relationship_path
NoPath == <<None>>

\* result.get("relationship_path", [])
PathOf(result) ==
    IF result.relationship_path = NoPath THEN <<>> ELSE result.relationship_path

\* 1.0 / (1.0 + path_length) if path_length > 0 else 0.8
NormalizeGraph(result) ==
    LET path_length == Len(PathOf(result))
    IN IF path_length > 0 THEN Rat(1, 1 + path_length) ELSE DirectNeighborScore

\* an element goes before the elements whose key is equal
RECURSIVE SortByFinalScore_mutant_ties_reversed(_)
SortByFinalScore_mutant_ties_reversed(results) ==
    IF results = <<>>
    THEN <<>>
    ELSE LET init == SortByFinalScore_mutant_ties_reversed(
                         SubSeq(results, 1, Len(results) - 1))
             last == results[Len(results)]
             keep(r) == RatLess(last.final_score, r.final_score)
         IN SelectSeq(init, keep) \o <<last>>
               \o SelectSeq(init, LAMBDA r : ~keep(r))

\* list.sort(key=final_score, reverse=True): stable, so an element goes
\* behind every element whose key is not smaller
RECURSIVE SortByFinalScore(_)
SortByFinalScore(results) ==
    IF results = <<>>
    THEN <<>>
    ELSE LET init == SortByFinalScore(SubSeq(results, 1, Len(results) - 1))
             last == results[Len(results)]
             keep(r) == ~RatLess(r.final_score, last.final_score)
             front == SelectSeq(init, keep)
             back == SelectSeq(init, LAMBDA r : ~keep(r))
         IN front \o <<last>> \o back

rerank_results(vector_results, graph_results, vector_weight) ==
    LET graph_weight == RatSub(One, vector_weight)
        max_vector_score == MaxScore(vector_results)
        scoredVector ==
            [i \in DOMAIN vector_results |->
                LET n == NormalizeVector(vector_results[i], max_vector_score)
                IN [source |-> "vector", id |-> vector_results[i].id,
                    score |-> vector_results[i].score,
                    relationship_path |-> NoPath,
                    normalized_score |-> n,
                    final_score |-> RatMul(n, vector_weight)]]
        scoredGraph ==
            [i \in DOMAIN graph_results |->
                LET n == NormalizeGraph(graph_results[i])
                IN [source |-> "graph", id |-> graph_results[i].id,
                    score |-> NoNumber,
                    relationship_path |-> graph_results[i].relationship_path,
                    normalized_score |-> n,
                    final_score |-> RatMul(n, graph_weight)]]
    IN SortByFinalScore(scoredVector \o scoredGraph)

\* similarity scores of the cosine index; PineconeHandler.query always sets one
ScorePool == {Rat(-1, 2), Rat(-1, 10), Zero, Rat(1, 2), Rat(9, 10)}

PathPool == {NoPath, <<>>, <<sTREATS>>, <<sTREATS, sAFFECTS_CROP>>}

WeightPool == {Zero, Rat(3, 5), One}

RECURSIVE SeqsUpTo(_, _)
SeqsUpTo(S, k) ==
    IF k = 0
    THEN {<<>>}
    ELSE LET shorter == SeqsUpTo(S, k - 1)
         IN shorter \cup { Append(q, x) : q \in shorter, x \in S }

\* the results of a list are told apart by their position in the input
VectorInputs ==
    { [i \in DOMAIN q |-> [id |-> i, score |-> q[i]]] :
        q \in SeqsUpTo(ScorePool, MaxVectorResults) }

GraphInputs ==
    { [i \in DOMAIN q |-> [id |-> i, relationship_path |-> q[i]]] :
        q \in SeqsUpTo(PathPool, MaxGraphResults) }

InitRerank ==
    /\ nodes = <<>>
    /\ rels = <<>>
    /\ entity_cache = <<>>
    /\ build = NoBuild
    /\ ret = NoRequest
    /\ ext = NoExtract
    /\ api = NoCalls
    /\ \E v \in VectorInputs, g \in GraphInputs, w \in WeightPool :
          rr = [status |-> "input", vector_results |-> v,
                graph_results |-> g, vector_weight |-> w, out |-> <<>>]

Rerank ==
    /\ rr.status = "input"
    /\ rr' = [rr EXCEPT !.status = "done",
                        !.out = rerank_results(rr.vector_results,
                                    rr.graph_results, rr.vector_weight)]
    /\ UNCHANGED <<nodes, rels, entity_cache, build, ret, ext, api>>

NextRerank == Rerank

SpecRerank == InitRerank /\ [][NextRerank]_vars

\* the vector results of a reranked list, in the order of the list
VectorPart(out) == SelectSeq(out, LAMBDA r : r.source = "vector")

GraphPart(out) == SelectSeq(out, LAMBDA r : r.source = "graph")

\* C5: with vector_weight = 1.0, for any scores in any input order, every
\* graph result gets final_score 0 and the vector results come back in the
\* order of their own scores, highest first.
C5_VectorWeightOneKeepsScoreOrder ==
    (rr.status = "done" /\ RatEq(rr.vector_weight, One))
        => /\ \A i \in DOMAIN rr.out :
                rr.out[i].source = "graph" => RatEq(rr.out[i].final_score, Zero)
           /\ LET v == VectorPart(rr.out)
              IN \A i, j \in DOMAIN v :
                    i < j => ~RatLess(ScoreOf(v[i]), ScoreOf(v[j]))

(***************************************************************************)
(* Knowledge graph builder (KnowledgeGraphBuilder).  A builder state b is  *)
(* [nodes, rels, cache, stats, calls, entLog, relLog]: the store, the      *)
(* entity cache (a function from lowercased names to ids), the statistics, *)
(* the number of store calls made, and one log entry per entity and per    *)
(* relationship processed.  faultAt = k > 0: the k-th store call of the    *)
(* run finds the store unreachable and raises.                             *)
(***************************************************************************)
CacheGet(cache, key) == IF key \in DOMAIN cache THEN cache[key] ELSE 0

CachePut(cache, key, id) ==
    [k \in DOMAIN cache \cup {key} |-> IF k = key THEN id ELSE cache[k]]

EmptyCache == [k \in {} |-> 0]

ZeroStats == [entities_created |-> 0, entities_found |-> 0,
              relationships_created |-> 0, errors |-> 0]

_create_or_get_entity_mutant_no_cache_check(b, entity, faultAt) ==
    LET name == Strip(GetOr(entity.name, <<>>))
        entity_type == Strip(GetOr(entity.type, sEntity))
        description == GetOr(entity.description, <<>>)
        cache_key == StrLower(name)
        r == get_or_create_entity(b.nodes, entity_type, name, description, "asc")
    IN IF name = <<>>
       THEN [raised |-> FALSE, id |-> 0, store_called |-> FALSE, b |-> b]
       ELSE IF faultAt = b.calls + 1 \/ r.raised
       THEN [raised |-> TRUE, id |-> 0, store_called |-> TRUE,
             b |-> [b EXCEPT !.calls = @ + 1]]
       ELSE [raised |-> FALSE, id |-> r.id, store_called |-> TRUE,
             b |-> [b EXCEPT !.calls = @ + 1, !.nodes = r.nodes,
                             !.cache = CachePut(b.cache, cache_key, r.id)]]

\* KnowledgeGraphBuilder._create_or_get_entity
_create_or_get_entity(b, entity, faultAt) ==
    LET name == Strip(GetOr(entity.name, <<>>))
        entity_type == Strip(GetOr(entity.type, sEntity))
        description == GetOr(entity.description, <<>>)
        cache_key == StrLower(name)
        r == get_or_create_entity(b.nodes, entity_type, name, description, "asc")
    IN IF name = <<>>
       THEN [raised |-> FALSE, id |-> 0, store_called |-> FALSE, b |-> b]
       ELSE IF cache_key \in DOMAIN b.cache
       THEN [raised |-> FALSE, id |-> b.cache[cache_key],
             store_called |-> FALSE, b |-> b]
       ELSE IF faultAt = b.calls + 1 \/ r.raised
       THEN [raised |-> TRUE, id |-> 0, store_called |-> TRUE,
             b |-> [b EXCEPT !.calls = @ + 1]]
       ELSE [raised |-> FALSE, id |-> r.id, store_called |-> TRUE,
             b |-> [b EXCEPT !.calls = @ + 1, !.nodes = r.nodes,
                             !.cache = CachePut(b.cache, cache_key, r.id)]]

\* the body of the first pass for one entity
CreateEntityStep(b, entity, faultAt) ==
    LET c == _create_or_get_entity(b, entity, faultAt)
        inCache == StrLower(GetOr(entity.name, <<>>)) \in DOMAIN c.b.cache
        counted == IF c.raised THEN "error"
                   ELSE IF c.id = 0 THEN "none"
                   ELSE IF inCache THEN "found" ELSE "created"
        stats == IF counted = "error"
                 THEN [c.b.stats EXCEPT !.errors = @ + 1]
                 ELSE IF counted = "found"
                 THEN [c.b.stats EXCEPT !.entities_found = @ + 1]
                 ELSE IF counted = "created"
                 THEN [c.b.stats EXCEPT !.entities_created = @ + 1]
                 ELSE c.b.stats
    IN [c.b EXCEPT !.stats = stats,
                   !.entLog = Append(@,
                       [entity |-> entity,
                        cached_before |->
                            StrLower(Strip(GetOr(entity.name, <<>>)))
                                \in DOMAIN b.cache,
                        store_called |-> c.store_called,
                        raised |-> c.raised, id |-> c.id,
                        counted |-> counted])]

RelType_mutant_no_strip(relationship) ==
    ReplaceSpaces(StrUpper(GetOr(relationship.type, sRELATED_TO)))

\* relationship.get("type", "RELATED_TO").strip().upper().replace(" ", "_")
RelType(relationship) ==
    ReplaceSpaces(StrUpper(Strip(GetOr(relationship.type, sRELATED_TO))))

Unresolved_mutant_only_from(from_id, to_id) == from_id = 0

\* not from_id or not to_id
Unresolved(from_id, to_id) == from_id = 0 \/ to_id = 0

\* KnowledgeGraphBuilder._create_relationship
_create_relationship(b, relationship, faultAt) ==
    LET from_name == StrLower(Strip(GetOr(relationship.from, <<>>)))
        to_name == StrLower(Strip(GetOr(relationship.to, <<>>)))
        rel_type == RelType(relationship)
        from_id == CacheGet(b.cache, from_name)
        to_id == CacheGet(b.cache, to_name)
        r == create_relationship(b.nodes, b.rels, from_id, to_id, rel_type)
    IN IF from_name = <<>> \/ to_name = <<>> \/ rel_type = <<>>
       THEN [raised |-> FALSE, success |-> FALSE, store_called |-> FALSE,
             b |-> b]
       ELSE IF Unresolved(from_id, to_id)
       THEN [raised |-> FALSE, success |-> FALSE, store_called |-> FALSE,
             b |-> b]
       ELSE IF faultAt = b.calls + 1 \/ r.raised
       THEN [raised |-> TRUE, success |-> FALSE, store_called |-> TRUE,
             b |-> [b EXCEPT !.calls = @ + 1]]
       ELSE [raised |-> FALSE, success |-> r.success, store_called |-> TRUE,
             b |-> [b EXCEPT !.calls = @ + 1, !.rels = r.rels]]

\* the body of the second pass for one relationship
CreateRelationshipStep(b, relationship, faultAt) ==
    LET c == _create_relationship(b, relationship, faultAt)
        counted == IF c.raised THEN "error"
                   ELSE IF c.success THEN "created" ELSE "none"
        stats == IF counted = "error"
                 THEN [c.b.stats EXCEPT !.errors = @ + 1]
                 ELSE IF counted = "created"
                 THEN [c.b.stats EXCEPT !.relationships_created = @ + 1]
                 ELSE c.b.stats
    IN [c.b EXCEPT !.stats = stats,
                   !.relLog = Append(@,
                       [relationship |-> relationship,
                        store_called |-> c.store_called,
                        raised |-> c.raised, success |-> c.success,
                        counted |-> counted,
                        stats_before |-> b.stats, stats_after |-> stats,
                        rels_before |-> Len(b.rels)])]

\* the loop over one extraction's entities leaves at the first entity whose
\* processing raised
RECURSIVE EntitiesOf_mutant_abort(_, _, _)
EntitiesOf_mutant_abort(b, entities, faultAt) ==
    IF entities = <<>> \/ (b.entLog # <<>> /\ b.entLog[Len(b.entLog)].raised)
    THEN b
    ELSE EntitiesOf_mutant_abort(CreateEntityStep(b, Head(entities), faultAt),
                                 Tail(entities), faultAt)

\* for entity in entities: try ... except Exception: stats["errors"] += 1
RECURSIVE EntitiesOf(_, _, _)
EntitiesOf(b, entities, faultAt) ==
    IF entities = <<>>
    THEN b
    ELSE EntitiesOf(CreateEntityStep(b, Head(entities), faultAt),
                    Tail(entities), faultAt)

RECURSIVE RelationshipsOf(_, _, _)
RelationshipsOf(b, relationships, faultAt) ==
    IF relationships = <<>>
    THEN b
    ELSE RelationshipsOf(CreateRelationshipStep(b, Head(relationships), faultAt),
                         Tail(relationships), faultAt)

\* "First pass: Create all entities"
RECURSIVE FirstPass(_, _, _)
FirstPass(b, extractions, faultAt) ==
    IF extractions = <<>>
    THEN b
    ELSE FirstPass(EntitiesOf(b, Head(extractions).entities, faultAt),
                   Tail(extractions), faultAt)

\* "Second pass: Create relationships"
RECURSIVE SecondPass(_, _, _)
SecondPass(b, extractions, faultAt) ==
    IF extractions = <<>>
    THEN b
    ELSE SecondPass(RelationshipsOf(b, Head(extractions).relationships, faultAt),
                    Tail(extractions), faultAt)

\* one pass: the entities and then the relationships of each extraction
RECURSIVE EachExtraction_mutant(_, _, _)
EachExtraction_mutant(b, extractions, faultAt) ==
    IF extractions = <<>>
    THEN b
    ELSE EachExtraction_mutant(
             RelationshipsOf(EntitiesOf(b, Head(extractions).entities, faultAt),
                             Head(extractions).relationships, faultAt),
             Tail(extractions), faultAt)

build_from_extractions_mutant_one_pass(ns, rs, cache, extractions, faultAt) ==
    EachExtraction_mutant([nodes |-> ns, rels |-> rs, cache |-> cache,
                           stats |-> ZeroStats, calls |-> 0,
                           entLog |-> <<>>, relLog |-> <<>>],
                          extractions, faultAt)

build_from_extractions(ns, rs, cache, extractions, faultAt) ==
    LET b0 == [nodes |-> ns, rels |-> rs, cache |-> cache,
               stats |-> ZeroStats, calls |-> 0,
               entLog |-> <<>>, relLog |-> <<>>]
    IN SecondPass(FirstPass(b0, extractions, faultAt), extractions, faultAt)

(***************************************************************************)
(* Ingestion runs.  A batch holds MaxExtractions extractions with at most  *)
(* MaxEntities entities and MaxRelationships relationships in all, each    *)
(* placed in one of the extractions.                                       *)
(***************************************************************************)
MaxExtractions == 2
MaxEntities == 2
MaxRelationships == 2
MaxFaultAt == 2

sSpWheat == <<" ">> \o swheat
sTreats == <<"t","r","e","a","t","s">>
sSpTreatsSp == <<" ">> \o sTreats \o <<" ">>
sSpRust == <<" ">> \o sRust

EntityPool ==
    { [name |-> sWheat,   type |-> sCrop,    description |-> None],
      [name |-> sRust,    type |-> sDisease, description |-> None],
      [name |-> sSpWheat, type |-> None,     description |-> None],
      [name |-> <<>>,     type |-> sCrop,    description |-> None],
      [name |-> sOat,     type |-> <<>>,     description |-> None] }

RelationshipPool ==
    { [from |-> sRust,   to |-> sWheat, type |-> sAffectsCrop],
      [from |-> sRust,   to |-> sOat,   type |-> sTreats],
      [from |-> sWheat,  to |-> sRust,  type |-> None],
      [from |-> sSpRust, to |-> swheat, type |-> sSpTreatsSp],
      [from |-> sWheat,  to |-> sRust,  type |-> <<>>] }

\* the sequences of at most k items of pool, each placed in an extraction,
\* the extractions in order
RECURSIVE Placed(_, _)
Placed(pool, k) ==
    IF k = 0
    THEN {<<>>}
    ELSE LET shorter == Placed(pool, k - 1)
         IN shorter \cup
            UNION { { Append(q, [item |-> x, at |-> e]) :
                        x \in pool,
                        e \in { d \in 1..MaxExtractions :
                                  q = <<>> \/ q[Len(q)].at <= d } } :
                    q \in { p \in shorter : Len(p) = k - 1 } }

ItemsAt(placed, e) ==
    LET here == SelectSeq(placed, LAMBDA p : p.at = e)
    IN [i \in DOMAIN here |-> here[i].item]

Batch(entities, relationships) ==
    [e \in 1..MaxExtractions |->
        [entities |-> ItemsAt(entities, e),
         relationships |-> ItemsAt(relationships, e)]]

Batches ==
    { Batch(es, rs) : es \in Placed(EntityPool, MaxEntities),
                      rs \in Placed(RelationshipPool, MaxRelationships) }

WheatNode == [type |-> sCrop, name |-> sWheat, description |-> <<>>]

\* a fresh store and builder; a store that an earlier run filled, with a
\* fresh builder; the same with the builder that filled it
InitBuild ==
    /\ \/ nodes = <<>> /\ entity_cache = EmptyCache
       \/ nodes = <<WheatNode>> /\ entity_cache = EmptyCache
       \/ nodes = <<WheatNode>> /\ entity_cache = CachePut(EmptyCache, swheat, 1)
    /\ rels = <<>>
    /\ build = NoBuild
    /\ ret = NoRequest
    /\ rr = NoRerank
    /\ ext = NoExtract
    /\ api = NoCalls

BuildFromExtractions ==
    /\ build.status = "idle"
    /\ \E extractions \in Batches, faultAt \in 0..MaxFaultAt :
          \E b \in {build_from_extractions(nodes, rels, entity_cache,
                                          extractions, faultAt)} :
             /\ nodes' = b.nodes
             /\ rels' = b.rels
             /\ entity_cache' = b.cache
             /\ build' = [status |-> "done", extractions |-> extractions,
                          faultAt |-> faultAt, stats |-> b.stats,
                          calls |-> b.calls,
                          entLog |-> b.entLog, relLog |-> b.relLog,
                          nodes_before |-> Len(nodes),
                          cache_before |-> entity_cache]
    /\ UNCHANGED <<ret, rr, ext, api>>

NextBuild == BuildFromExtractions

SpecBuild == InitBuild /\ [][NextBuild]_vars

\* the relationships of a batch, in the order of the second pass
RECURSIVE AllRelationships(_)
AllRelationships(extractions) ==
    IF extractions = <<>>
    THEN <<>>
    ELSE Head(extractions).relationships \o AllRelationships(Tail(extractions))

\* the name does not lead to an entity id
NameUnresolved(name) ==
    LET key == StrLower(Strip(GetOr(name, <<>>)))
    IN key \notin DOMAIN entity_cache \/ entity_cache[key] = 0

\* C6: a relationship whose from or to name cannot be resolved to an entity
\* id increments neither relationships_created nor errors and makes no store
\* call, and the pass goes on with the next relationship.
C6_UnresolvedRelationshipSkipped ==
    build.status = "done"
        => /\ Len(build.relLog) = Len(AllRelationships(build.extractions))
           /\ \A i \in DOMAIN build.relLog :
                LET e == build.relLog[i]
                IN /\ e.relationship = AllRelationships(build.extractions)[i]
                   /\ (NameUnresolved(e.relationship.from)
                            \/ NameUnresolved(e.relationship.to))
                        => /\ e.stats_after.relationships_created
                                = e.stats_before.relationships_created
                           /\ e.stats_after.errors = e.stats_before.errors
                           /\ ~e.store_called
                           /\ Len(rels) >= e.rels_before

\* a relationship with an unresolved end was skipped and a later one created
C6_Witness ==
    /\ build.status = "done"
    /\ \E i, j \in DOMAIN build.relLog :
          /\ i < j
          /\ ~NameUnresolved(build.relLog[i].relationship.from)
          /\ NameUnresolved(build.relLog[i].relationship.to)
          /\ build.relLog[j].counted = "created"
          /\ build.stats.relationships_created = 1
          /\ build.stats.errors = 0

\* the batch of the scenario: Wheat (Crop), Rust (Disease) and Rust "affects
\* crop" Wheat in the first extraction
ScenarioBatch ==
    [e \in 1..MaxExtractions |->
        IF e = 1
        THEN [entities |-> <<[name |-> sWheat, type |-> sCrop, description |-> None],
                             [name |-> sRust, type |-> sDisease, description |-> None]>>,
              relationships |-> <<[from |-> sRust, to |-> sWheat,
                                   type |-> sAffectsCrop]>>]
        ELSE [entities |-> <<>>, relationships |-> <<>>]]

\* after the scenario the store holds Rust -[AFFECTS_CROP]-> Wheat and the
\* neighbourhood of Wheat holds Rust behind the path [AFFECTS_CROP]
ScenarioHolds ==
    LET wheat == find_entity_by_name(nodes, sCrop, sWheat, "asc")
        rust == find_entity_by_name(nodes, sDisease, sRust, "asc")
    IN /\ wheat # 0 /\ rust # 0
       /\ rels = <<[from |-> rust, to |-> wheat, type |-> sAFFECTS_CROP]>>
       /\ \A scan \in ScanOrders, max_hops \in 1..MaxHops :
             get_related_entities(rels, wheat, max_hops, scan)
                = <<[id |-> rust, relationship_path |-> <<sAFFECTS_CROP>>]>>

\* t is s uppercased with every space replaced by an underscore
IsUpperUnderscored(t, s) ==
    /\ Len(t) = Len(s)
    /\ \A i \in DOMAIN s :
          t[i] = (IF s[i] = " " THEN "_" ELSE UpperChar(s[i]))

\* the relationships the run stored, each with the type it was extracted with
StoredTypes ==
    { <<rels[build.relLog[i].rels_before + 1].type,
        build.relLog[i].relationship.type>> :
        i \in { j \in DOMAIN build.relLog :
                  /\ build.relLog[j].counted = "created"
                  /\ build.relLog[j].relationship.type # None } }

\* C8 as stated: after the scenario the stored type is AFFECTS_CROP and Wheat's
\* neighbourhood holds Rust behind [AFFECTS_CROP]; every relationship type the
\* builder stores is the extracted type uppercased with spaces replaced by
\* underscores.
C8_StoredTypeIsUpperUnderscored ==
    build.status = "done"
        => /\ (build.extractions = ScenarioBatch /\ build.faultAt = 0)
                => ScenarioHolds
           /\ \A p \in StoredTypes : IsUpperUnderscored(p[1], p[2])

\* C8 amended: the stored type is the extracted type with the surrounding
\* whitespace removed, uppercased, every remaining space replaced by an
\* underscore; the scenario holds as stated.
C8_StoredTypeIsTrimmedUpperUnderscored ==
    build.status = "done"
        => /\ (build.extractions = ScenarioBatch /\ build.faultAt = 0)
                => ScenarioHolds
           /\ \A p \in StoredTypes : IsUpperUnderscored(p[1], Strip(p[2]))

\* the scenario ran on the empty store
C8_Witness ==
    /\ build.status = "done"
    /\ build.extractions = ScenarioBatch
    /\ build.faultAt = 0
    /\ build.nodes_before = 0
    /\ build.stats.relationships_created = 1
    /\ StoredTypes = {<<sAFFECTS_CROP, sAffectsCrop>>}

(***************************************************************************)
(* The entity store's write interface called directly.  api counts the     *)
(* calls made and keeps the last two of them, each with the store it       *)
(* started from.                                                           *)
(***************************************************************************)
MaxCalls == 4

StoreTypePool == {sCrop, sEntity, <<>>}

StoreNamePool == {sWheat, swheat, <<>>}

NoCall == [op |-> "none"]

InitStore ==
    /\ nodes = <<>>
    /\ rels = <<>>
    /\ entity_cache = <<>>
    /\ build = NoBuild
    /\ ret = NoRequest
    /\ rr = NoRerank
    /\ ext = NoExtract
    /\ api = [n |-> 0, prev |-> NoCall, last |-> NoCall]

Called(op, type, name, r) ==
    [n |-> api.n + 1, prev |-> api.last,
     last |-> [op |-> op, type |-> type, name |-> name, raised |-> r.raised,
               id |-> r.id, nodes_before |-> nodes]]

CreateEntityNode ==
    /\ api.n < MaxCalls
    /\ \E type \in StoreTypePool, name \in StoreNamePool :
          LET r == create_entity_node(nodes, type, name, None)
          IN /\ nodes' = r.nodes
             /\ api' = Called("create_entity_node", type, name, r)
    /\ UNCHANGED <<rels, entity_cache, build, ret, rr, ext>>

GetOrCreateEntity ==
    /\ api.n < MaxCalls
    /\ \E type \in StoreTypePool, name \in StoreNamePool,
          scan \in ScanOrders :
          LET r == get_or_create_entity(nodes, type, name, None, scan)
          IN /\ nodes' = r.nodes
             /\ api' = Called("get_or_create_entity", type, name, r)
    /\ UNCHANGED <<rels, entity_cache, build, ret, rr, ext>>

NextStore == CreateEntityNode \/ GetOrCreateEntity

SpecStore == InitStore /\ [][NextStore]_vars

\* the nodes of a type whose name is the given one, letter case ignored
NodesNamed(ns, type, name) ==
    {i \in DOMAIN ns : /\ ns[i].type = type
                       /\ ns[i].name # None
                       /\ StrLower(ns[i].name) = StrLower(name)}

\* the last two calls were get_or_create_entity with one type and with names
\* that are equal up to letter case, and both returned an id
TwoGetOrCreate ==
    /\ api.prev.op = "get_or_create_entity"
    /\ api.last.op = "get_or_create_entity"
    /\ api.prev.type = api.last.type
    /\ StrLower(api.prev.name) = StrLower(api.last.name)
    /\ ~api.prev.raised
    /\ ~api.last.raised

SameIdOneNode ==
    /\ api.prev.id = api.last.id
    /\ Cardinality(NodesNamed(nodes, api.last.type, api.last.name)) = 1

\* C7 as stated: two get_or_create_entity calls in sequence with the same type
\* and the same name (or names differing only in letter case) return the same
\* id, and the store then holds exactly one node of that type with that name,
\* whatever the store held before the first call.
C7_GetOrCreateIdempotentFromAnyState ==
    TwoGetOrCreate => SameIdOneNode

\* C7 amended: the same, for a store that held at most one node of that type
\* with that name before the first call.
C7_GetOrCreateIdempotentWithoutDuplicates ==
    (/\ TwoGetOrCreate
     /\ Cardinality(NodesNamed(api.prev.nodes_before, api.prev.type,
                               api.prev.name)) <= 1)
        => SameIdOneNode

\* the first call created the node and the second, spelled in another letter
\* case, found it
C7_Witness ==
    /\ TwoGetOrCreate
    /\ NodesNamed(api.prev.nodes_before, api.prev.type, api.prev.name) = {}
    /\ api.prev.name # api.last.name
    /\ api.last.nodes_before # <<>>
    /\ api.last.id = api.prev.id

(***************************************************************************)
(* Entity extraction (OllamaHandler.extract_entities, the demo's           *)
(* extract_entities_with_llm, EntityExtractor.extract_from_text).  An LLM  *)
(* response is a sequence of lexemes: the braces and brackets, the comma,  *)
(* the two keys with their colon, a number, and a word that is not JSON.   *)
(* A JSON value is [k, key, m, s]: its kind, the key it sits under in an   *)
(* object ("" elsewhere), its members or elements, its text if a string.   *)
(***************************************************************************)
tEntities == "\"entities\":"

tRelationships == "\"relationships\":"

KeyTokens == {tEntities, tRelationships}

KeyOf(token) == IF token = tEntities THEN "entities" ELSE "relationships"

Lexemes == {"{", "}", "[", "]", ",", tEntities, tRelationships, "5", "x"}

JNum == [k |-> "num", key |-> "", m |-> <<>>, s |-> ""]

JStr(s) == [k |-> "str", key |-> "", m |-> <<>>, s |-> s]

JArr(m) == [k |-> "arr", key |-> "", m |-> m, s |-> ""]

JObj(m) == [k |-> "obj", key |-> "", m |-> m, s |-> ""]

Keyed(v, key) == [v EXCEPT !.key = key]

HasKey(obj, key) == \E i \in DOMAIN obj.m : obj.m[i].key = key

\* obj[key]
Member(obj, key) ==
    obj.m[CHOOSE i \in DOMAIN obj.m : obj.m[i].key = key]

\* obj[key] = v: a key already there keeps its place and takes the value
SetMember(obj, key, v) ==
    IF HasKey(obj, key)
    THEN [obj EXCEPT !.m = [i \in DOMAIN obj.m |->
                               IF obj.m[i].key = key THEN Keyed(v, key)
                               ELSE obj.m[i]]]
    ELSE [obj EXCEPT !.m = Append(obj.m, Keyed(v, key))]

\* {"entities": [], "relationships": []}
EmptyStructure ==
    JObj(<<Keyed(JArr(<<>>), "entities"),
           Keyed(JArr(<<>>), "relationships")>>)

ParseFail == [ok |-> FALSE, val |-> JNum, next |-> 0]

\* json.loads, by recursive descent over the lexemes from position i
RECURSIVE ParseValue(_, _), ParseElements(_, _, _), ParseMembers(_, _, _)
ParseValue(t, i) ==
    IF i > Len(t) THEN ParseFail
    ELSE IF t[i] = "5" THEN [ok |-> TRUE, val |-> JNum, next |-> i + 1]
    ELSE IF t[i] = "["
         THEN IF i + 1 <= Len(t) /\ t[i + 1] = "]"
              THEN [ok |-> TRUE, val |-> JArr(<<>>), next |-> i + 2]
              ELSE ParseElements(t, i + 1, JArr(<<>>))
    ELSE IF t[i] = "{"
         THEN IF i + 1 <= Len(t) /\ t[i + 1] = "}"
              THEN [ok |-> TRUE, val |-> JObj(<<>>), next |-> i + 2]
              ELSE ParseMembers(t, i + 1, JObj(<<>>))
    ELSE ParseFail

ParseElements(t, i, arr) ==
    LET v == ParseValue(t, i)
    IN IF ~v.ok \/ v.next > Len(t) THEN ParseFail
       ELSE LET acc == [arr EXCEPT !.m = Append(arr.m, v.val)]
            IN IF t[v.next] = "]"
               THEN [ok |-> TRUE, val |-> acc, next |-> v.next + 1]
               ELSE IF t[v.next] = ","
                    THEN ParseElements(t, v.next + 1, acc)
                    ELSE ParseFail

ParseMembers(t, i, obj) ==
    IF i > Len(t) \/ t[i] \notin KeyTokens THEN ParseFail
    ELSE LET v == ParseValue(t, i + 1)
         IN IF ~v.ok \/ v.next > Len(t) THEN ParseFail
            ELSE LET acc == SetMember(obj, KeyOf(t[i]), v.val)
                 IN IF t[v.next] = "}"
                    THEN [ok |-> TRUE, val |-> acc, next |-> v.next + 1]
                    ELSE IF t[v.next] = ","
                         THEN ParseMembers(t, v.next + 1, acc)
                         ELSE ParseFail

\* json.loads(json_str): the whole text is one value, or it raises
json_loads(t) ==
    LET v == ParseValue(t, 1)
    IN IF v.ok /\ v.next = Len(t) + 1
       THEN [raised |-> FALSE, val |-> v.val]
       ELSE [raised |-> TRUE, val |-> JNum]

\* str.find and str.rfind: a 0-based position, -1 when absent
Find(t, c) ==
    IF \E i \in DOMAIN t : t[i] = c
    THEN (CHOOSE i \in DOMAIN t : t[i] = c /\ \A j \in 1..(i - 1) : t[j] # c)
         - 1
    ELSE -1

RFind(t, c) ==
    IF \E i \in DOMAIN t : t[i] = c
    THEN (CHOOSE i \in DOMAIN t :
              t[i] = c /\ \A j \in (i + 1)..Len(t) : t[j] # c) - 1
    ELSE -1

\* OllamaHandler.generate: the reply's content, "" when the chat call fails
generate(response, llmUp) == IF llmUp THEN response ELSE <<>>

SpanEnd_mutant_no_plus_one(response) == RFind(response, "}")

\* end = response.rfind('}') + 1
SpanEnd(response) == RFind(response, "}") + 1

\* OllamaHandler.extract_entities
extract_entities(reply, llmUp) ==
    LET response == generate(reply, llmUp)
        start == Find(response, "{")
        end == SpanEnd(response)
    IN IF start >= 0 /\ end > start
       THEN LET parsed == json_loads(SubSeq(response, start + 1, end))
            IN IF parsed.raised THEN EmptyStructure ELSE parsed.val
       ELSE EmptyStructure

\* len(x) raises for a number
HasLen(v) == v.k \in {"arr", "obj", "str"}

\* SimpleGraphRAG.extract_entities_with_llm: the chat call is inside the try,
\* and so is the debug line that takes len(result.get('entities', []))
extract_entities_with_llm(reply, llmUp) ==
    IF ~llmUp THEN EmptyStructure
    ELSE LET start == Find(reply, "{")
             end == RFind(reply, "}") + 1
         IN IF start >= 0 /\ end > start
            THEN LET parsed == json_loads(SubSeq(reply, start + 1, end))
                 IN IF parsed.raised THEN EmptyStructure
                    ELSE IF /\ HasKey(parsed.val, "entities")
                            /\ ~HasLen(Member(parsed.val, "entities"))
                         THEN EmptyStructure
                         ELSE parsed.val
            ELSE EmptyStructure

ChunkNone == "<None>"

\* for item in result.get(key, []): item["source_chunk"] = chunk_id
\* iterating a number raises; iterating an object yields its keys, strings,
\* and item assignment on a string or a number or a list index raises
TagSource(result, key, chunk_id) ==
    IF ~HasKey(result, key) THEN [raised |-> FALSE, val |-> result]
    ELSE LET items == Member(result, key)
         IN IF items.k = "num" THEN [raised |-> TRUE, val |-> result]
            ELSE IF \/ items.k = "obj" /\ items.m # <<>>
                    \/ items.k = "arr"
                       /\ \E i \in DOMAIN items.m : items.m[i].k # "obj"
                 THEN [raised |-> TRUE, val |-> result]
                 ELSE IF items.k # "arr"
                      THEN [raised |-> FALSE, val |-> result]
                      ELSE [raised |-> FALSE,
                            val |-> SetMember(result, key,
                               [items EXCEPT !.m = [i \in DOMAIN items.m |->
                                   SetMember(items.m[i], "source_chunk",
                                             JStr(chunk_id))]])]

\* EntityExtractor.extract_from_text
extract_from_text(reply, llmUp, chunk_id) ==
    LET result == extract_entities(reply, llmUp)
    IN IF chunk_id = ChunkNone \/ chunk_id = ""
       THEN [raised |-> FALSE, val |-> result]
       ELSE LET e == TagSource(result, "entities", chunk_id)
            IN IF e.raised THEN e
               ELSE TagSource(e.val, "relationships", chunk_id)

(***************************************************************************)
(* Extraction runs.  The reply of the LLM is drawn from: every sequence of *)
(* at most MaxFreeLen lexemes; the JSON texts nested MaxDepth deep, bare   *)
(* or with a word before and after; objects holding both keys; and each of *)
(* these texts with one lexeme dropped.                                    *)
(***************************************************************************)
MaxFreeLen == 3

MaxDepth == 2

FreeTexts == UNION {[1..n -> Lexemes] : n \in 0..MaxFreeLen}

BaseTexts == {<<"5">>, <<"[", "]">>, <<"{", "}">>}

RECURSIVE JsonTexts(_)
JsonTexts(d) ==
    IF d = 0 THEN BaseTexts
    ELSE LET inner == JsonTexts(d - 1)
         IN BaseTexts
            \cup {<<"[">> \o t \o <<"]">> : t \in inner}
            \cup {<<"{", key>> \o t \o <<"}">> :
                      key \in KeyTokens, t \in inner}

BothKeysTexts ==
    LET inner == JsonTexts(MaxDepth - 1)
    IN {<<"{", tEntities>> \o t \o <<",", tRelationships>> \o u \o <<"}">> :
            t \in inner, u \in inner}

DropAt(t, p) == SubSeq(t, 1, p - 1) \o SubSeq(t, p + 1, Len(t))

Replies ==
    LET whole == JsonTexts(MaxDepth) \cup BothKeysTexts
    IN FreeTexts
       \cup whole
       \cup {<<"x">> \o t \o <<"x">> : t \in whole}
       \cup UNION {{DropAt(t, p) : p \in DOMAIN t} : t \in whole}

ChunkIds == {ChunkNone, "", "c1"}

InitExtract ==
    /\ nodes = <<>>
    /\ rels = <<>>
    /\ entity_cache = <<>>
    /\ build = NoBuild
    /\ ret = NoRequest
    /\ rr = NoRerank
    /\ api = NoCalls
    /\ \E reply \in Replies : ext = [status |-> "reply", reply |-> reply]

ExtractFromText ==
    /\ ext.status = "reply"
    /\ \E llmUp \in BOOLEAN, chunk_id \in ChunkIds :
          LET r == extract_from_text(ext.reply, llmUp, chunk_id)
          IN ext' = [status |-> IF r.raised THEN "raised" ELSE "returned",
                     op |-> "extract_from_text", reply |-> ext.reply,
                     llmUp |-> llmUp, chunk_id |-> chunk_id,
                     extracted |-> extract_entities(ext.reply, llmUp),
                     out |-> r.val]
    /\ UNCHANGED <<nodes, rels, entity_cache, build, ret, rr, api>>

ExtractEntitiesWithLlm ==
    /\ ext.status = "reply"
    /\ \E llmUp \in BOOLEAN :
          LET r == extract_entities_with_llm(ext.reply, llmUp)
          IN ext' = [status |-> "returned",
                     op |-> "extract_entities_with_llm", reply |-> ext.reply,
                     llmUp |-> llmUp, chunk_id |-> ChunkNone,
                     extracted |-> r, out |-> r]
    /\ UNCHANGED <<nodes, rels, entity_cache, build, ret, rr, api>>

NextExtract == ExtractFromText \/ ExtractEntitiesWithLlm

SpecExtract == InitExtract /\ [][NextExtract]_vars

\* the lexemes from the first "{" to the last "}" of a reply, <<>> when the
\* reply has no "{" followed, at once or later, by a "}"
BraceSpan(reply) ==
    LET opens == {i \in DOMAIN reply : reply[i] = "{"}
        closes == {i \in DOMAIN reply : reply[i] = "}"}
    IN IF opens = {} \/ closes = {} THEN <<>>
       ELSE LET first == CHOOSE i \in opens : \A j \in opens : i <= j
                last == CHOOSE i \in closes : \A j \in closes : j <= i
            IN IF first < last THEN SubSeq(reply, first, last) ELSE <<>>

\* an extraction ran to its end on a reply the LLM delivered
Extracted == ext.status # "reply" /\ ext.status # "idle"

SpanParses == ext.llmUp /\ ~json_loads(BraceSpan(ext.reply)).raised

\* C9 as stated: when no JSON object parses from the span between the first
\* "{" and the last "}" of the reply, or the LLM call fails, either extraction
\* returns the empty structure; when the span parses, it returns the parsed
\* object.
C9_ParsedObjectOrEmptyStructure ==
    Extracted =>
        ext.extracted = IF SpanParses
                        THEN json_loads(BraceSpan(ext.reply)).val
                        ELSE EmptyStructure

\* C9 amended: the same, except that the demo's extraction also returns the
\* empty structure when the parsed object holds a number under "entities".
C9_ParsedObjectOrEmptyStructureButDemoLen ==
    Extracted =>
        LET parsed == json_loads(BraceSpan(ext.reply)).val
            noLen == /\ ext.op = "extract_entities_with_llm"
                     /\ HasKey(parsed, "entities")
                     /\ ~HasLen(Member(parsed, "entities"))
        IN ext.extracted = IF SpanParses /\ ~noLen THEN parsed
                           ELSE EmptyStructure

\* a reply with a word before and after a non-empty object, handed back parsed
C9_Witness ==
    /\ Extracted
    /\ ext.op = "extract_from_text"
    /\ SpanParses
    /\ Len(BraceSpan(ext.reply)) > 2
    /\ Len(BraceSpan(ext.reply)) < Len(ext.reply)
    /\ ext.extracted # EmptyStructure
    /\ ext.extracted.k = "obj"

IsList(obj, key) == HasKey(obj, key) /\ Member(obj, key).k = "arr"

\* C10 as stated: extract_from_text never raises, and what it returns holds
\* an entities list and a relationships list, for every reply and chunk_id.
C10_ExtractFromTextAlwaysBothLists ==
    (Extracted /\ ext.op = "extract_from_text") =>
        /\ ext.status = "returned"
        /\ IsList(ext.out, "entities")
        /\ IsList(ext.out, "relationships")
(***************************************************************************)
(* The statistics of the first pass.                                       *)
(***************************************************************************)
\* the entities of a batch, in the order of the first pass
RECURSIVE AllEntities(_)
AllEntities(extractions) ==
    IF extractions = <<>>
    THEN <<>>
    ELSE Head(extractions).entities \o AllEntities(Tail(extractions))

\* the entities have pairwise distinct non-empty names
DistinctNonEmptyNames(entities) ==
    /\ \A i \in DOMAIN entities : Strip(GetOr(entities[i].name, <<>>)) # <<>>
    /\ \A i, j \in DOMAIN entities :
          i # j => StrLower(Strip(GetOr(entities[i].name, <<>>)))
                      # StrLower(Strip(GetOr(entities[j].name, <<>>)))

\* C11: in the first pass an entity whose name was not in the cache before it
\* was processed is counted in entities_created and one whose name was in the
\* cache is counted in entities_found; a fresh builder given N entities with
\* pairwise distinct non-empty names reports entities_created = N and
\* entities_found = 0.
C11_CountedByCacheBefore ==
    build.status = "done"
        => /\ \A i \in DOMAIN build.entLog :
                LET e == build.entLog[i]
                IN (~e.raised /\ e.id # 0)
                      => e.counted = (IF e.cached_before THEN "found"
                                                         ELSE "created")
           /\ (/\ build.cache_before = EmptyCache
               /\ DistinctNonEmptyNames(AllEntities(build.extractions))
               /\ \A i \in DOMAIN build.entLog : ~build.entLog[i].raised)
                 => /\ build.stats.entities_created
                          = Len(AllEntities(build.extractions))
                    /\ build.stats.entities_found = 0
\* the number of entries of a log whose processing raised
Raised(log) == Cardinality({ i \in DOMAIN log : log[i].raised })

\* C12: a store failure while processing one entity or one relationship never
\* aborts the batch: every entity and every relationship of every extraction
\* is attempted, in order, the errors count is the number of items whose
\* processing raised, and build_from_extractions returns its stats.
C12_StoreFailureNeverAbortsBatch ==
    build.status = "done"
        => /\ Len(build.entLog) = Len(AllEntities(build.extractions))
           /\ \A i \in DOMAIN build.entLog :
                 build.entLog[i].entity = AllEntities(build.extractions)[i]
           /\ Len(build.relLog) = Len(AllRelationships(build.extractions))
           /\ \A i \in DOMAIN build.relLog :
                 build.relLog[i].relationship
                    = AllRelationships(build.extractions)[i]
           /\ build.stats.errors = Raised(build.entLog) + Raised(build.relLog)
           /\ DOMAIN build.stats = DOMAIN ZeroStats

\* the store failed on the first entity of an extraction and the next entity
\* of the same extraction was still created
C12_Witness ==
    /\ build.status = "done"
    /\ build.faultAt = 1
    /\ Len(build.extractions[1].entities) = 2
    /\ build.entLog[1].raised
    /\ build.entLog[2].store_called /\ ~build.entLog[2].raised
    /\ build.entLog[2].id = Len(nodes)
    /\ build.stats.errors = 1

\* the store failed on a relationship and a later relationship was created
C12_WitnessRelationship ==
    /\ build.status = "done"
    /\ \E i, j \in DOMAIN build.relLog :
          /\ i < j
          /\ build.relLog[i].raised
          /\ build.relLog[j].counted = "created"
    /\ build.stats.errors = 1
\* C13: when the entity store is unreachable during retrieve (search_entities,
\* find_entity_by_name or get_related_entities raises), retrieve does not
\* raise: it returns the vector results together with an empty or partial
\* graph result list.
C13_EntityStoreFailureDegrades ==
    (ret.status # "idle" /\ ret.fault = "neo")
        => /\ ret.status = "returned"
           /\ IsIndexHits(ret.out.vector_results, ret.index, ret.top_k_vector)
\* the entity has no name, or an empty or blank one
Nameless(entity) == Strip(GetOr(entity.name, <<>>)) = <<>>

\* C14: an entity with a missing or empty name aborts only its own creation:
\* get_or_create_entity without a non-empty name raises and creates no node;
\* in build_from_extractions such an entity creates no node and no cache
\* entry, and all remaining entities and relationships are still processed.
C14_NamelessEntityAbortsOnlyItself ==
    /\ \A type \in StoreTypePool, name \in {None, <<>>}, scan \in ScanOrders :
          LET r == get_or_create_entity(nodes, type, name, None, scan)
          IN r.raised /\ r.nodes = nodes
    /\ build.status = "done"
        => /\ \A i \in DOMAIN build.entLog :
                 Nameless(build.entLog[i].entity)
                    => ~build.entLog[i].store_called /\ build.entLog[i].id = 0
           /\ \A n \in (build.nodes_before + 1)..Len(nodes) :
                 \E i \in DOMAIN build.entLog :
                    /\ ~Nameless(build.entLog[i].entity)
                    /\ build.entLog[i].id = n
                    /\ nodes[n].name = Strip(build.entLog[i].entity.name)
           /\ \A k \in DOMAIN entity_cache :
                 k # <<>> /\ (k \in DOMAIN build.cache_before
                                \/ \E i \in DOMAIN build.entLog :
                                      /\ ~Nameless(build.entLog[i].entity)
                                      /\ k = StrLower(Strip(build.entLog[i].entity.name)))
           /\ Len(build.entLog) = Len(AllEntities(build.extractions))
           /\ Len(build.relLog) = Len(AllRelationships(build.extractions))

\* a nameless entity came first, the entity after it was created and a
\* relationship of the batch was stored
C14_Witness ==
    /\ build.status = "done"
    /\ Len(build.entLog) = 2
    /\ Nameless(build.entLog[1].entity)
    /\ build.entLog[2].store_called
    /\ build.entLog[2].id = Len(nodes)
    /\ Len(nodes) = build.nodes_before + 1
    /\ build.stats.relationships_created = 1
    /\ build.stats.errors = 0
(***************************************************************************)
(* Retrieval with conversation context                                     *)
(* (HybridRetriever.retrieve_with_context).  A history is NoHistory (the    *)
(* argument is absent or None) or a list of strings.                       *)
(***************************************************************************)
NoHistory == <<None>>

\* the default of retrieve's max_hops parameter
DefaultMaxHops == 2

\* the number of recent history entries put before the query
ContextLen == 2

\* the dict returned after retrieve gave r; the exception of retrieve when it
\* raised
WithContext(query, enhanced_query, r) ==
    IF r.raised
    THEN [raised |-> TRUE, passed |-> enhanced_query, inner |-> r]
    ELSE [raised |-> FALSE, passed |-> enhanced_query, inner |-> r,
          query |-> query, enhanced_query |-> enhanced_query,
          vector_results |-> r.vector_results,
          graph_results |-> r.graph_results,
          num_vector |-> Len(r.vector_results),
          num_graph |-> Len(r.graph_results)]

\* enhanced_query = query; if conversation_history:
\*     enhanced_query = f"{' '.join(conversation_history[-2:])} {query}"
EnhancedQuery(query, conversation_history) ==
    IF conversation_history = NoHistory \/ conversation_history = <<>>
    THEN query
    ELSE Join(PyLast(conversation_history, ContextLen)) \o <<" ">> \o query

retrieve_with_context(ns, rs, index, query, conversation_history, top_k_vector, top_k_graph, embedUp, indexUp, neoUp, scan) ==
    WithContext(query, EnhancedQuery(query, conversation_history),
                retrieve(ns, rs, index,
                         EnhancedQuery(query, conversation_history),
                         top_k_vector, top_k_graph, DefaultMaxHops,
                         embedUp, indexUp, neoUp, scan))

MaxHistory == 3

HistoryPool == {sWheat, <<>>}

QueryPool == {sRust, sIs}

Histories == {NoHistory} \cup SeqsUpTo(HistoryPool, MaxHistory)

InitContext == InitRetrieve

RetrieveWithContext ==
    /\ ret.status = "idle"
    /\ \E query \in QueryPool, history \in Histories, index \in Indexes,
          top_k_vector \in 1..MaxHits, top_k_graph \in 0..MaxTopKGraph,
          fault \in Faults, scan \in ScanOrders :
          \E r \in {retrieve_with_context(nodes, rels, index, query, history,
                        top_k_vector, top_k_graph, fault # "embed",
                        fault # "index", fault # "neo", scan)} :
             ret' = [status |-> IF r.raised THEN "raised" ELSE "returned",
                     query |-> query, history |-> history, index |-> index,
                     top_k_vector |-> top_k_vector,
                     top_k_graph |-> top_k_graph,
                     fault |-> fault, scan |-> scan, out |-> r]
    /\ UNCHANGED <<nodes, rels, entity_cache, build, rr, ext, api>>

NextContext == RetrieveWithContext

SpecContext == InitContext /\ [][NextContext]_vars
\* the last (at most 2) history strings joined by single spaces, then a
\* space, then the query; the query alone without history
ExpectedEnhanced(query, h) ==
    IF h = NoHistory \/ h = <<>> THEN query
    ELSE IF Len(h) = 1 THEN h[1] \o <<" ">> \o query
    ELSE h[Len(h) - 1] \o <<" ">> \o h[Len(h)] \o <<" ">> \o query

\* C15: retrieve_with_context builds the enhanced query from the last (at
\* most 2) history strings joined by single spaces, a space and the query,
\* and from the query alone when the history is empty or absent; it passes
\* the enhanced query to retrieve and returns the original query, the
\* enhanced query, the two result lists of retrieve and their lengths.
C15_EnhancedQueryFromLastTwo ==
    /\ ret.status # "idle"
        => /\ ret.out.passed = ExpectedEnhanced(ret.query, ret.history)
           /\ ret.fault # "neo"
                => ret.out.inner.searched
                      = LongTokens(Split(ExpectedEnhanced(ret.query, ret.history)))
    /\ ret.status = "returned"
        => /\ ret.out.query = ret.query
           /\ ret.out.enhanced_query = ExpectedEnhanced(ret.query, ret.history)
           /\ ~ret.out.inner.raised
           /\ ret.out.vector_results = ret.out.inner.vector_results
           /\ ret.out.graph_results = ret.out.inner.graph_results
           /\ ret.out.num_vector = Len(ret.out.vector_results)
           /\ ret.out.num_graph = Len(ret.out.graph_results)

\* a history of three entries, the last one empty: the first is left out and
\* the enhanced query has two spaces before the query
C15_Witness ==
    /\ ret.status = "returned"
    /\ ret.history = <<sWheat, sWheat, <<>> >>
    /\ ret.query = sRust
    /\ ret.out.enhanced_query = sWheat \o <<" ", " ">> \o sRust
    /\ ret.out.num_vector = 2
    /\ ret.out.num_graph >= 1
(***************************************************************************)
(* retrieve returns the two lists as the stores gave them.                 *)
(***************************************************************************)
\* the neighbourhoods of the seeds, one after the other, as the entity store
\* returned them
RECURSIVE Neighbourhoods(_)
Neighbourhoods(seeds) ==
    IF seeds = <<>>
    THEN <<>>
    ELSE get_related_entities(rels, Head(seeds), ret.max_hops, ret.scan)
            \o Neighbourhoods(Tail(seeds))

\* the rows whose id no earlier row has, in their order
RECURSIVE FirstFound(_, _)
FirstFound(rows, acc) ==
    IF rows = <<>>
    THEN acc
    ELSE FirstFound(Tail(rows), IF HasId(acc, Head(rows).id)
                                THEN acc ELSE Append(acc, Head(rows)))

IsPrefix(a, b) == Len(a) <= Len(b) /\ a = SubSeq(b, 1, Len(a))

RankingFields == {"normalized_score", "final_score", "source"}

\* the hits with their scores as fractions of 100
AsScored(vector_results) ==
    [i \in DOMAIN vector_results |->
        [id |-> vector_results[i].id,
         score |-> Rat(vector_results[i].score, 100)]]

\* C16: retrieve performs no ranking or fusion: the vector list is the vector
\* store's hit list in the store's order, the graph list is in traversal
\* (first-found) order, and no result carries a normalized_score, final_score
\* or source field; those appear only after rerank_results.
C16_RetrieveDoesNotRank ==
    ret.status = "returned"
        => /\ IsIndexHits(ret.out.vector_results,
                          IF ret.fault \in {"embed", "index"} THEN <<>>
                                                              ELSE ret.index,
                          ret.top_k_vector)
           /\ IsPrefix(ret.out.graph_results,
                       FirstFound(Neighbourhoods(ret.out.fetched), <<>>))
           /\ \A i \in DOMAIN ret.out.vector_results :
                 DOMAIN ret.out.vector_results[i] \cap RankingFields = {}
           /\ \A i \in DOMAIN ret.out.graph_results :
                 DOMAIN ret.out.graph_results[i] \cap RankingFields = {}
           /\ \A w \in WeightPool :
                 LET ranked == rerank_results(AsScored(ret.out.vector_results),
                                              ret.out.graph_results, w)
                 IN /\ Len(ranked) = Len(ret.out.vector_results)
                                        + Len(ret.out.graph_results)
                    /\ \A i \in DOMAIN ranked :
                          RankingFields \subseteq DOMAIN ranked[i]

\* two hits and two graph results came back, found behind paths of different
\* lengths
C16_Witness ==
    /\ ret.status = "returned"
    /\ Len(ret.out.vector_results) = 2
    /\ ret.out.vector_results[1].score > ret.out.vector_results[2].score
    /\ Len(ret.out.graph_results) = 2
    /\ Len(ret.out.graph_results[1].relationship_path)
          # Len(ret.out.graph_results[2].relationship_path)
(***************************************************************************)
(* Concurrent ingestion.  Each job calls get_or_create_entity on the one   *)
(* store; a call is the name check, the lookup (one session) and the       *)
(* create (another session), and the steps of the jobs interleave freely.  *)
(* api.jobs[j] is the position of job j in its call, api.n the number of   *)
(* calls started.                                                          *)
(***************************************************************************)
Jobs == {1, 2}

IdleJob == [pc |-> "idle"]

InitRace ==
    /\ nodes = <<>>
    /\ rels = <<>>
    /\ entity_cache = <<>>
    /\ build = NoBuild
    /\ ret = NoRequest
    /\ rr = NoRerank
    /\ ext = NoExtract
    /\ api = [n |-> 0, jobs |-> [j \in Jobs |-> IdleJob]]

\* name = properties.get("name"); if not name: raise ValueError
JobCalls(j) ==
    /\ api.jobs[j].pc \in {"idle", "returned", "raised"}
    /\ api.n < MaxCalls
    /\ \E type \in StoreTypePool, name \in StoreNamePool :
          api' = [n |-> api.n + 1,
                  jobs |-> [api.jobs EXCEPT ![j] =
                      [pc |-> IF name = <<>> THEN "raised" ELSE "lookup",
                       type |-> type, name |-> name,
                       existing |-> 0, id |-> 0,
                       nodes_at_call |-> Len(nodes)]]]
    /\ UNCHANGED <<nodes, rels, entity_cache, build, ret, rr, ext>>

\* existing = self.find_entity_by_name(entity_type, name)
\* if existing: return existing["id"]
JobLooksUp(j) ==
    /\ api.jobs[j].pc = "lookup"
    /\ \E scan \in ScanOrders :
          \E existing \in {find_entity_by_name(nodes, api.jobs[j].type,
                                               api.jobs[j].name, scan)} :
             api' = [api EXCEPT !.jobs[j].pc =
                                    IF ~ValidLabel(api.jobs[j].type)
                                    THEN "raised"
                                    ELSE IF existing # 0 THEN "returned"
                                    ELSE "create",
                                !.jobs[j].existing = existing,
                                !.jobs[j].id = existing]
    /\ UNCHANGED <<nodes, rels, entity_cache, build, ret, rr, ext>>

\* return self.create_entity_node(entity_type, properties)
JobCreates(j) ==
    /\ api.jobs[j].pc = "create"
    /\ \E r \in {create_entity_node(nodes, api.jobs[j].type,
                                    api.jobs[j].name, None)} :
          /\ nodes' = r.nodes
          /\ api' = [api EXCEPT !.jobs[j].pc =
                                    IF r.raised THEN "raised" ELSE "returned",
                                !.jobs[j].id = r.id]
    /\ UNCHANGED <<rels, entity_cache, build, ret, rr, ext>>

NextRace == \E j \in Jobs : JobCalls(j) \/ JobLooksUp(j) \/ JobCreates(j)

SpecRace == InitRace /\ [][NextRace]_vars

\* the last calls of the two jobs were for one type and name, the store held
\* no such node when either was made, both looked up before either created,
\* and both have returned
BothMissed ==
    /\ \A j \in Jobs : /\ api.jobs[j].pc = "returned"
                       /\ api.jobs[j].existing = 0
    /\ api.jobs[1].type = api.jobs[2].type
    /\ api.jobs[1].name = api.jobs[2].name

\* C17: two jobs calling get_or_create_entity concurrently for the same type
\* and name on a store that does not hold it can interleave so that the store
\* ends with two nodes of that type and name and the calls return different
\* ids: whenever both lookups came before both creates this is the outcome.
C17_ConcurrentCallsDuplicate ==
    BothMissed
        => /\ api.jobs[1].id # api.jobs[2].id
           /\ \A j \in Jobs :
                 /\ api.jobs[j].id \in DOMAIN nodes
                 /\ nodes[api.jobs[j].id].type = api.jobs[1].type
                 /\ nodes[api.jobs[j].id].name = api.jobs[1].name
           /\ Cardinality(NodesNamed(nodes, api.jobs[1].type,
                                     api.jobs[1].name)) >= 2

\* the interleaving: both jobs called on the empty store, both looked up,
\* both created
C17_Witness ==
    /\ BothMissed
    /\ api.n = 2
    /\ \A j \in Jobs : api.jobs[j].nodes_at_call = 0
    /\ Len(nodes) = 2
    /\ nodes[1] = nodes[2]
    /\ api.jobs[1].id # api.jobs[2].id
\* C18: retrieve runs the sparse-result expansion exactly when the number of
\* graph results of the first traversal is below half of top_k_graph
\* (count < top_k_graph / 2), odd top_k_graph and top_k_graph = 1 included;
\* otherwise the results of the first traversal are returned unchanged.
C18_ExpansionBelowHalf ==
    ret.status = "returned"
        => /\ ret.out.expanded
                <=> 2 * Len(ret.out.first_results) < ret.top_k_graph
           /\ ~ret.out.expanded
                => ret.out.graph_results = ret.out.first_results
\* the results the expansion's own traversal found, in its order
NewResults ==
    _graph_traversal(nodes, rels, ret.out.candidates, ret.top_k_graph,
                     ret.max_hops, TRUE, ret.scan).results

\* the part of the returned graph list behind the existing results
AddedResults ==
    SubSeq(ret.out.graph_results, Len(ret.out.first_results) + 1,
           Len(ret.out.graph_results))

\* C19: the list returned by the sparse-result expansion starts with all
\* existing graph results in their original order, followed only by newly
\* traversed results whose id is not already present, each new id at most
\* once, in the order the new traversal found them.
C19_ExpansionKeepsExistingFirst ==
    (ret.status = "returned" /\ ret.out.expanded)
        => /\ IsPrefix(ret.out.first_results, ret.out.graph_results)
           /\ NoDuplicateIds(ret.out.graph_results)
           /\ IsPrefix(AddedResults,
                       SelectSeq(NewResults,
                                 LAMBDA r : ~HasId(ret.out.first_results, r.id)))

\* the expansion kept one existing result, left out a new result with the
\* same id and added one with a new id
C19_Witness ==
    /\ ret.status = "returned"
    /\ ret.out.expanded
    /\ Len(ret.out.first_results) = 1
    /\ Len(ret.out.graph_results) = 2
    /\ ret.out.graph_results[1] = ret.out.first_results[1]
    /\ HasId(NewResults, ret.out.first_results[1].id)
(***************************************************************************)
(* Query-entity extraction (HybridRetriever._extract_query_entities) on    *)
(* stores with more matches than the search returns.                       *)
(***************************************************************************)
MaxMatchNodes == 5

\* the nodes of NodePool and a node without a name that matches by its
\* description
MatchNodePool ==
    NodePool \o <<[type |-> sPest, name |-> None, description |-> sOfWheat]>>

MatchStores ==
    { Pick(MatchNodePool, N) :
        N \in { X \in SUBSET DOMAIN MatchNodePool :
                  Cardinality(X) <= MaxMatchNodes } }

InitQuery ==
    /\ nodes \in MatchStores
    /\ rels = <<>>
    /\ entity_cache = <<>>
    /\ build = NoBuild
    /\ ret = NoRequest
    /\ rr = NoRerank
    /\ ext = NoExtract
    /\ api = NoCalls

ExtractQueryEntities ==
    /\ ret.status = "idle"
    /\ \E tokens \in TokenSeqs(MaxQueryTokens), neoUp \in BOOLEAN,
          scan \in ScanOrders :
          \E q \in {_extract_query_entities(nodes, Join(tokens), neoUp, scan)} :
             ret' = [status |-> IF q.raised THEN "raised" ELSE "returned",
                     tokens |-> tokens, neoUp |-> neoUp, scan |-> scan,
                     out |-> q]
    /\ UNCHANGED <<nodes, rels, entity_cache, build, rr, ext, api>>

NextQuery == ExtractQueryEntities

SpecQuery == InitQuery /\ [][NextQuery]_vars

\* every node matching the term, in the order the store scans them
AllMatches(term) == search_entities(nodes, term, Len(nodes), ret.scan)

\* the non-empty names of the first (at most 3) matches of each term, in term
\* order then match order
RECURSIVE Collected(_)
Collected(terms) ==
    IF terms = <<>>
    THEN <<>>
    ELSE LET first == SubSeq(AllMatches(Head(terms)), 1,
                             IF Len(AllMatches(Head(terms))) < 3
                             THEN Len(AllMatches(Head(terms))) ELSE 3)
             named == SelectSeq(first, LAMBDA id : /\ nodes[id].name # None
                                                   /\ nodes[id].name # <<>>)
         IN [i \in DOMAIN named |-> nodes[named[i]].name]
               \o Collected(Tail(terms))

\* the positions of names that hold a spelling not seen before, letter case
\* ignored
FirstSeen(names) ==
    { i \in DOMAIN names :
        \A j \in 1..(i - 1) : StrLower(names[j]) # StrLower(names[i]) }

\* b is a listed in order without the positions outside keep
IsSelection(b, a, keep) ==
    /\ Len(b) = Cardinality(keep)
    /\ \A i \in DOMAIN b :
          \E p \in keep : /\ b[i] = a[p]
                          /\ Cardinality({q \in keep : q < p}) = i - 1

RECURSIVE ResolvedSeeds(_, _)
ResolvedSeeds(names, n) ==
    IF n = 0
    THEN <<>>
    ELSE LET id == Resolve(nodes, names[n], ret.scan).id
         IN ResolvedSeeds(names, n - 1) \o (IF id = 0 THEN <<>> ELSE <<id>>)

\* the distinct-id entries accumulated from the first n seed names
Accumulated(names, n) ==
    FirstFound(Neighbourhoods(ResolvedSeeds(names, n)), <<>>)

\* the seed names that were looked up, in the order of their first lookup
LookedUp ==
    LET first == SelectSeq(ret.out.finds, LAMBDA f : f[1] = sEntity)
    IN [i \in DOMAIN first |-> first[i][2]]

\* the traversal returned the first top_k distinct-id entries of the seeds'
\* neighbour lists, the first occurrence of an id with its path
FirstTopK ==
    LET all == Accumulated(ret.out.query_entities, Len(ret.out.query_entities))
    IN ret.out.first_results
          = SubSeq(all, 1, IF ret.top_k_graph < Len(all)
                           THEN ret.top_k_graph ELSE Len(all))

\* C21 as stated: graph traversal returns the first top_k distinct-id entries
\* of the concatenation, in seed order, of each resolved seed's neighbour
\* list, and once top_k entries have been accumulated no further seed is
\* looked up or traversed.
C21_FirstTopKAndNoFurtherSeed ==
    (ret.status = "returned" /\ ~ret.out.expanded /\ ret.top_k_graph >= 0)
        => /\ FirstTopK
           /\ IsPrefix(LookedUp, ret.out.query_entities)
           /\ \A i \in DOMAIN ret.out.query_entities :
                 i \in DOMAIN LookedUp
                    <=> Len(Accumulated(ret.out.query_entities, i - 1))
                           < ret.top_k_graph

\* C21 amended: the same for top_k >= 1; with top_k = 0 the list is empty and
\* the seeds are looked up in order up to and including the first that
\* resolves.
C21_FirstTopKAndNoFurtherSeedFromOne ==
    (ret.status = "returned" /\ ~ret.out.expanded /\ ret.top_k_graph >= 0)
        => /\ FirstTopK
           /\ IsPrefix(LookedUp, ret.out.query_entities)
           /\ \A i \in DOMAIN ret.out.query_entities :
                 i \in DOMAIN LookedUp
                    <=> IF ret.top_k_graph >= 1
                        THEN Len(Accumulated(ret.out.query_entities, i - 1))
                                < ret.top_k_graph
                        ELSE ResolvedSeeds(ret.out.query_entities, i - 1) = <<>>

\* with top_k = 1 the first seed filled the list and the second seed, which
\* has neighbours of its own, was not looked up
C21_Witness ==
    /\ ret.status = "returned"
    /\ ~ret.out.expanded
    /\ ret.top_k_graph = 1
    /\ Len(ret.out.query_entities) = 2
    /\ Len(LookedUp) = 1
    /\ Len(ret.out.first_results) = 1
    /\ Len(Accumulated(ret.out.query_entities, 2)) = 2
\* the types a seed name is looked up under, in the order stated
LookupTypes == <<sEntity, sCrop, sDisease, sPest, sTechnique, sChemical>>

TypeRank(type) == CHOOSE k \in DOMAIN LookupTypes : LookupTypes[k] = type

\* the node the lookup logged at position p of finds yields, 0 when none
Found(p) ==
    find_entity_by_name(nodes, ret.out.finds[p][1], ret.out.finds[p][2],
                        ret.scan)

\* C22: for each seed name graph traversal looks the name up under Entity
\* first and then under Crop, Disease, Pest, Technique, Chemical in that
\* order, stops at the first type that yields a node and traverses from that
\* node only; a name found under none of them causes no neighbourhood fetch,
\* contributes nothing and raises no error.
C22_LookupOrderAndSilentSkip ==
    ret.status = "returned"
        => /\ \A p \in DOMAIN ret.out.finds :
                 /\ ret.out.finds[p][1] \in { LookupTypes[k] : k \in DOMAIN LookupTypes }
                 /\ TypeRank(ret.out.finds[p][1]) > 1
                       => /\ p > 1
                          /\ ret.out.finds[p - 1]
                                = <<LookupTypes[TypeRank(ret.out.finds[p][1]) - 1],
                                    ret.out.finds[p][2]>>
                          /\ Found(p - 1) = 0
                 /\ (Found(p) # 0 /\ p < Len(ret.out.finds))
                       => ret.out.finds[p + 1][1] = sEntity
                 /\ (Found(p) = 0 /\ TypeRank(ret.out.finds[p][1]) < Len(LookupTypes))
                       => /\ p < Len(ret.out.finds)
                          /\ ret.out.finds[p + 1]
                                = <<LookupTypes[TypeRank(ret.out.finds[p][1]) + 1],
                                    ret.out.finds[p][2]>>
           /\ LET hits == SelectSeq([p \in DOMAIN ret.out.finds |-> Found(p)],
                                    LAMBDA id : id # 0)
              IN ret.out.fetched = hits
           /\ ret.out.fetched = <<>> => ret.out.graph_results = <<>>

\* one seed was found under none of the six types and skipped, the next was
\* found under the third type and its neighbourhood fetched
C22_Witness ==
    /\ ret.status = "returned"
    /\ ~ret.out.expanded
    /\ ret.out.query_entities = <<sOat, sRust>>
    /\ Len(ret.out.finds) = 9
    /\ ret.out.finds[6] = <<sChemical, sOat>>
    /\ ret.out.finds[9] = <<sDisease, sRust>>
    /\ Len(ret.out.fetched) = 1
    /\ ret.out.graph_results # <<>>
\* the normalized score and the weight the statement gives a reranked result
NormalizedAsStated(r) ==
    IF r.source = "vector"
    THEN IF RatEq(MaxScore(rr.vector_results), Zero)
         THEN RatEq(r.normalized_score, Zero)
         ELSE RatEq(RatMul(r.normalized_score, MaxScore(rr.vector_results)),
                    ScoreOf(r))
    ELSE IF PathOf(r) # <<>>
         THEN RatEq(r.normalized_score, Rat(1, 1 + Len(PathOf(r))))
         ELSE RatEq(r.normalized_score, Rat(8, 10))

WeightOf(r) ==
    IF r.source = "vector" THEN rr.vector_weight
                           ELSE RatSub(One, rr.vector_weight)

\* C23: after rerank_results each vector result has normalized_score = score /
\* (maximum score of the vector batch), or 0 when that maximum is 0; each
\* graph result has normalized_score = 1/(1 + path length) for a non-empty
\* path and 0.8 for an empty or absent one; final_score = normalized_score
\* times vector_weight for vector results and times (1 - vector_weight) for
\* graph results.
C23_NormalizedAndFinalScores ==
    rr.status = "done"
        => \A i \in DOMAIN rr.out :
              /\ NormalizedAsStated(rr.out[i])
              /\ RatEq(rr.out[i].final_score,
                       RatMul(rr.out[i].normalized_score, WeightOf(rr.out[i])))
\* a comes before b in the order the results are met: the vector results in
\* input order, then the graph results in input order
MetBefore(a, b) ==
    \/ a.source = "vector" /\ b.source = "graph"
    \/ a.source = b.source /\ a.id < b.id

\* the number of entries of the reranked list that are the given input
TimesIn(out, source, id) ==
    Cardinality({ i \in DOMAIN out : out[i].source = source /\ out[i].id = id })

\* C24: the list returned by rerank_results is the stable descending sort by
\* final_score of the vector results followed by the graph results: every
\* input result is in it exactly once, final_score never increases along the
\* list, and results with equal final_score keep encounter order.
C24_StableDescendingSort ==
    rr.status = "done"
        => /\ Len(rr.out) = Len(rr.vector_results) + Len(rr.graph_results)
           /\ \A i \in DOMAIN rr.vector_results :
                 /\ TimesIn(rr.out, "vector", i) = 1
                 /\ \A k \in DOMAIN rr.out :
                       (rr.out[k].source = "vector" /\ rr.out[k].id = i)
                          => rr.out[k].score = rr.vector_results[i].score
           /\ \A i \in DOMAIN rr.graph_results :
                 /\ TimesIn(rr.out, "graph", i) = 1
                 /\ \A k \in DOMAIN rr.out :
                       (rr.out[k].source = "graph" /\ rr.out[k].id = i)
                          => rr.out[k].relationship_path
                                = rr.graph_results[i].relationship_path
           /\ \A i, j \in DOMAIN rr.out :
                 i < j => /\ ~RatLess(rr.out[i].final_score, rr.out[j].final_score)
                          /\ RatEq(rr.out[i].final_score, rr.out[j].final_score)
                                => MetBefore(rr.out[i], rr.out[j])

\* a graph result was moved before a vector result, and two vector results
\* with equal final scores stayed in input order
C24_Witness ==
    /\ rr.status = "done"
    /\ \E i, j \in DOMAIN rr.out :
          /\ i < j
          /\ rr.out[i].source = "graph" /\ rr.out[j].source = "vector"
          /\ RatLess(rr.out[j].final_score, rr.out[i].final_score)
    /\ \E i, j \in DOMAIN rr.out :
          /\ i < j
          /\ rr.out[i].source = "vector" /\ rr.out[j].source = "vector"
          /\ RatEq(rr.out[i].final_score, rr.out[j].final_score)
          /\ RatLess(Zero, rr.out[i].final_score)
          /\ rr.out[i].id < rr.out[j].id
\* the extracted type is absent, empty, whitespace only or shorter than 2
\* characters
ShortType(relationship) ==
    relationship.type = None \/ Len(Strip(relationship.type)) < 2

\* C25: a relationship whose extracted type is empty, whitespace only,
\* shorter than 2 characters or absent, and whose two endpoints are both
\* resolved, is created with type RELATED_TO: it is not skipped and does not
\* raise.
C25_ShortTypeStoredAsRelatedTo ==
    (build.status = "done" /\ build.faultAt = 0)
        => \A i \in DOMAIN build.relLog :
              LET e == build.relLog[i]
              IN (/\ ShortType(e.relationship)
                  /\ ~NameUnresolved(e.relationship.from)
                  /\ ~NameUnresolved(e.relationship.to))
                    => /\ ~e.raised
                       /\ e.counted = "created"
                       /\ Len(rels) > e.rels_before
                       /\ rels[e.rels_before + 1].type = sRELATED_TO
\* the type Cypher can take as a label: it starts with an alphabetic character
StartsAlphabetic(type) == type # <<>> /\ IsAlphaChar(type[1])

\* the extracted type is absent, empty or starts with a non-alphabetic
\* character
NoUsableType(entity) ==
    entity.type = None \/ ~StartsAlphabetic(Strip(entity.type))

\* C26: every entity node written to the store by ingestion has a non-empty
\* name and a type that starts with an alphabetic character: an extracted
\* entity whose type is absent, empty or starts with a non-alphabetic
\* character is stored under the generic type Entity rather than under the
\* invalid type and rather than failing.
C26_InvalidTypeStoredAsEntity ==
    (build.status = "done" /\ build.faultAt = 0)
        => /\ \A n \in (build.nodes_before + 1)..Len(nodes) :
                 /\ nodes[n].name # None /\ nodes[n].name # <<>>
                 /\ StartsAlphabetic(nodes[n].type)
           /\ \A i \in DOMAIN build.entLog :
                 LET e == build.entLog[i]
                 IN (NoUsableType(e.entity) /\ ~Nameless(e.entity))
                       => /\ ~e.raised
                          /\ e.id \in DOMAIN nodes
                          /\ e.store_called => nodes[e.id].type = sEntity
\* the cache key of an endpoint name
EndKey(name) == StrLower(Strip(GetOr(name, <<>>)))

\* C27: build_from_extractions attempts no relationship creation until every
\* entity of every extraction of the batch has been processed, and the
\* endpoints are resolved only through the builder's cache, never by a store
\* lookup; so a relationship whose endpoints are entities of a later
\* extraction of the same batch is still created.
C27_EntitiesBeforeRelationships ==
    build.status = "done"
        => \A i \in DOMAIN build.relLog :
              LET e == build.relLog[i]
              IN /\ e.stats_before.entities_created = build.stats.entities_created
                 /\ e.stats_before.entities_found = build.stats.entities_found
                 /\ e.stats_before.errors >= Raised(build.entLog)
                 /\ (NameUnresolved(e.relationship.from)
                        \/ NameUnresolved(e.relationship.to))
                       => ~e.store_called /\ e.counted = "none"
                 /\ e.counted = "created"
                       => rels[e.rels_before + 1]
                             = [from |-> entity_cache[EndKey(e.relationship.from)],
                                to |-> entity_cache[EndKey(e.relationship.to)],
                                type |-> RelType(e.relationship)]
                 /\ (/\ ~NameUnresolved(e.relationship.from)
                     /\ ~NameUnresolved(e.relationship.to)
                     /\ RelType(e.relationship) # <<>>
                     /\ build.faultAt = 0)
                       => e.counted = "created"

\* the relationship stands in the first extraction, its two endpoints are
\* entities of the second, the builder and the store were empty, and the
\* relationship was created
C27_Witness ==
    /\ build.status = "done"
    /\ build.nodes_before = 0
    /\ build.cache_before = EmptyCache
    /\ build.extractions[1].entities = <<>>
    /\ Len(build.extractions[1].relationships) = 1
    /\ Len(build.extractions[2].entities) = 2
    /\ build.extractions[2].relationships = <<>>
    /\ build.relLog[1].counted = "created"
    /\ Len(rels) = 1

\* ---------------------------------------------------------------------------
\* DocumentChunker.chunk_text (entity_extractor.py:138-188), one action per
\* iteration of its while loop.  Positions are Python's 0-based offsets.
\* ---------------------------------------------------------------------------

MaxTextLen == 6
MaxChunkSize == 5
MaxWindows == 7

ChunkAlphabet == {"a", ".", " ", "\n"}

ChunkTexts == UNION {[1..n -> ChunkAlphabet] : n \in 0..MaxTextLen}

\* a slice bound as Python reads it: a negative offset counts from the end of
\* the text, and both ends are clipped to 0..n
PyBound(i, n) ==
    IF i < 0 THEN (IF i + n < 0 THEN 0 ELSE i + n)
    ELSE (IF i > n THEN n ELSE i)

\* text.rfind(c, start, end): the highest offset of c inside text[start:end],
\* -1 when there is none
RFindIn(text, c, start, end) ==
    LET hits == {i \in PyBound(start, Len(text))..(PyBound(end, Len(text)) - 1) :
                     text[i + 1] = c}
    IN IF hits = {} THEN -1 ELSE CHOOSE i \in hits : \A j \in hits : j <= i

\* text[start:end]
TextSlice(text, start, end) ==
    SubSeq(text, PyBound(start, Len(text)) + 1, PyBound(end, Len(text)))

\* max(last_period, last_newline) of the window start..end
break_point(text, start, end) ==
    LET last_period == RFindIn(text, ".", start, end)
        last_newline == RFindIn(text, "\n", start, end)
    IN IF last_period > last_newline THEN last_period ELSE last_newline

\* the end of the window that starts at start: chunk_size characters on, cut
\* at the end of the text, and pulled back to just after the last sentence
\* boundary when the window stops short of the end of the text
WindowEnd(text, chunk_size, start) ==
    LET end == IF start + chunk_size < Len(text) THEN start + chunk_size
               ELSE Len(text)
    IN IF end < Len(text) /\ break_point(text, start, end) > start
       THEN break_point(text, start, end) + 1
       ELSE end

\* start = end - self.chunk_overlap if end < text_length else text_length
NextStart(text, chunk_overlap, end) ==
    IF end < Len(text) THEN end - chunk_overlap ELSE Len(text)

\* the chunks list after the iteration: the stripped window is appended
\* unless it is empty (the id and doc_id fields only repeat chunk_num)
Appended(chunks, text, start, end, chunk_num) ==
    IF Strip(TextSlice(text, start, end)) = <<>> THEN chunks
    ELSE Append(chunks, [text |-> Strip(TextSlice(text, start, end)),
                         start_pos |-> start, end_pos |-> end,
                         chunk_num |-> chunk_num])

InitChunk ==
    /\ nodes = <<>>
    /\ rels = <<>>
    /\ entity_cache = <<>>
    /\ build = NoBuild
    /\ ret = NoRequest
    /\ rr = NoRerank
    /\ api = NoCalls
    /\ \E text \in ChunkTexts, chunk_size \in 1..MaxChunkSize :
          \E chunk_overlap \in 0..(chunk_size - 1) :
             ext = [status |-> "chunking", text |-> text,
                    chunk_size |-> chunk_size, chunk_overlap |-> chunk_overlap,
                    start |-> 0, chunk_num |-> 0, chunks |-> <<>>,
                    windows |-> <<>>]

\* one pass through the body of `while start < text_length`; windows is the
\* history of the (start, end) pairs the loop has gone through
ChunkIteration ==
    /\ ext.status = "chunking"
    /\ ext.start < Len(ext.text)
    /\ Len(ext.windows) < MaxWindows
    /\ \E end \in {WindowEnd(ext.text, ext.chunk_size, ext.start)} :
       \E chunks \in {Appended(ext.chunks, ext.text, ext.start, end, ext.chunk_num)} :
          ext' = [ext EXCEPT
                    !.start = NextStart(ext.text, ext.chunk_overlap, end),
                    !.chunk_num = Len(chunks),
                    !.chunks = chunks,
                    !.windows = Append(ext.windows,
                                       [start |-> ext.start, end |-> end])]
    /\ UNCHANGED <<nodes, rels, entity_cache, build, ret, rr, api>>

\* the loop condition fails: return chunks
ChunkReturn ==
    /\ ext.status = "chunking"
    /\ ext.start >= Len(ext.text)
    /\ ext' = [ext EXCEPT !.status = "returned"]
    /\ UNCHANGED <<nodes, rels, entity_cache, build, ret, rr, api>>

NextChunk == ChunkIteration \/ ChunkReturn

SpecChunk == InitChunk /\ [][NextChunk]_vars

\* the characters window i and the window after it have in common
SharedWith(i) ==
    {p \in 0..(Len(ext.text) - 1) :
        /\ ext.windows[i].start <= p /\ p < ext.windows[i].end
        /\ ext.windows[i + 1].start <= p /\ p < ext.windows[i + 1].end}

\* C28: every window spans at most chunk_size characters; every window but the
\* last is followed by a window that starts chunk_overlap characters before
\* its end, so that the two share chunk_overlap characters; once chunk_text
\* has returned, no character of the text lies outside every window and the
\* last window ends at the end of the text.
C28_WindowsOverlapAndCover ==
    /\ \A i \in DOMAIN ext.windows :
          ext.windows[i].end - ext.windows[i].start <= ext.chunk_size
    /\ \A i \in 1..(Len(ext.windows) - 1) :
          /\ ext.windows[i + 1].start = ext.windows[i].end - ext.chunk_overlap
          /\ Cardinality(SharedWith(i)) = ext.chunk_overlap
    /\ (ext.status = "returned" /\ ext.windows # <<>>) =>
          /\ ext.windows[Len(ext.windows)].end = Len(ext.text)
          /\ \A p \in 0..(Len(ext.text) - 1) :
                \E i \in DOMAIN ext.windows :
                   ext.windows[i].start <= p /\ p < ext.windows[i].end

\* C29: the window start is never negative and grows with every iteration, so
\* the loop ends after at most one iteration per character of the text.
C29_StartIncreasesAndLoopEnds ==
    /\ ext.start >= 0
    /\ \A i \in 1..(Len(ext.windows) - 1) :
          ext.windows[i].start < ext.windows[i + 1].start
    /\ Len(ext.windows) <= Len(ext.text)

\* ---------------------------------------------------------------------------
\* One KnowledgeGraphBuilder instance over its lifetime: entities handed to
\* _create_or_get_entity one at a time, and clear_cache between them
\* (graph_builder.py:79-118, 251-254).  build.log is the history of the calls.
\* ---------------------------------------------------------------------------

MaxCacheOps == 4

CacheEntityPool ==
    EntityPool \cup {[name |-> swheat, type |-> sDisease, description |-> None]}

InitCache ==
    /\ \/ nodes = <<>>
       \/ nodes = <<WheatNode>>
    /\ entity_cache = EmptyCache
    /\ rels = <<>>
    /\ build = [status |-> "building", log |-> <<>>]
    /\ ret = NoRequest
    /\ rr = NoRerank
    /\ ext = NoExtract
    /\ api = NoCalls

\* self._create_or_get_entity(entity); storeDown: the store call, if one is
\* made, finds the store unreachable
CreateOrGetEntity ==
    /\ build.status = "building"
    /\ Len(build.log) < MaxCacheOps
    /\ \E entity \in CacheEntityPool, storeDown \in BOOLEAN :
       \E c \in {_create_or_get_entity(
                    [nodes |-> nodes, rels |-> rels, cache |-> entity_cache,
                     stats |-> ZeroStats, calls |-> 0,
                     entLog |-> <<>>, relLog |-> <<>>],
                    entity, IF storeDown THEN 1 ELSE 0)} :
          /\ nodes' = c.b.nodes
          /\ entity_cache' = c.b.cache
          /\ build' = [build EXCEPT !.log = Append(@,
                          [op |-> "entity", entity |-> entity,
                           key |-> StrLower(Strip(GetOr(entity.name, <<>>))),
                           store_called |-> c.store_called,
                           raised |-> c.raised, id |-> c.id,
                           cache_after |-> c.b.cache])]
    /\ UNCHANGED <<rels, ret, rr, ext, api>>

\* KnowledgeGraphBuilder.clear_cache
ClearCache ==
    /\ build.status = "building"
    /\ Len(build.log) < MaxCacheOps
    /\ entity_cache' = EmptyCache
    /\ build' = [build EXCEPT !.log = Append(@, [op |-> "clear_cache"])]
    /\ UNCHANGED <<nodes, rels, ret, rr, ext, api>>

NextCache == CreateOrGetEntity \/ ClearCache

SpecCache == InitCache /\ [][NextCache]_vars

\* calls i < j handed entities of the same non-empty lowercased name, with no
\* clear_cache from i to j
SameNameCalls(i, j) ==
    /\ i < j
    /\ \A k \in i..j : build.log[k].op = "entity"
    /\ build.log[i].key # <<>>
    /\ build.log[i].key = build.log[j].key

CallPairs ==
    {p \in (DOMAIN build.log) \X (DOMAIN build.log) : SameNameCalls(p[1], p[2])}

\* C30 as stated: between two clear_cache calls, entities of the same
\* lowercased, trimmed name resolve to the same id whatever their types, the
\* store is called at most once for the name, and the id cached for the name
\* is never replaced.
C30_OneIdOneStoreCallPerName ==
    \A p \in CallPairs :
       /\ build.log[p[1]].id = build.log[p[2]].id
       /\ ~(build.log[p[1]].store_called /\ build.log[p[2]].store_called)
       /\ build.log[p[1]].key \in DOMAIN build.log[p[1]].cache_after =>
             /\ build.log[p[1]].key \in DOMAIN build.log[p[2]].cache_after
             /\ build.log[p[2]].cache_after[build.log[p[2]].key]
                   = build.log[p[1]].cache_after[build.log[p[1]].key]

\* C30, for names whose store call succeeded: once a call has returned an id
\* for a name, every later call for that name before the next clear_cache
\* returns that id without a store call, whatever the type, and the cache
\* keeps the id; a name is never cached unless a call returned its id.
C30_OneIdPerResolvedName ==
    \A p \in CallPairs :
       /\ build.log[p[1]].key \in DOMAIN build.log[p[1]].cache_after <=>
             (~build.log[p[1]].raised /\ build.log[p[1]].id # 0)
       /\ build.log[p[1]].id # 0 =>
             /\ build.log[p[2]].id = build.log[p[1]].id
             /\ ~build.log[p[2]].store_called
             /\ ~build.log[p[2]].raised
             /\ build.log[p[2]].cache_after[build.log[p[2]].key]
                   = build.log[p[1]].id
             /\ build.log[p[1]].cache_after[build.log[p[1]].key]
                   = build.log[p[1]].id

\* two entities named Wheat and wheat of different types, the first resolved
\* by a store call, the second from the cache
C30_Witness ==
    \E p \in CallPairs :
       /\ build.log[p[1]].entity.type # build.log[p[2]].entity.type
       /\ build.log[p[1]].entity.name # build.log[p[2]].entity.name
       /\ build.log[p[1]].store_called
       /\ build.log[p[1]].id # 0
       /\ build.log[p[2]].id = build.log[p[1]].id

====
